---- MODULE Spec2Model ----
(***************************************************************************)
(* Verification model of the SWD flasher (soup0r/Mesh_Radio_Flasher_noBT). *)
(*                                                                         *)
(* The module holds several state machines over one set of variables, one  *)
(* specification per layer of the program:                                 *)
(*   SpecUpload  web_upload.c: hex record callback, flush_buffer, the      *)
(*               flash-from-file handler and the mass-erase handler        *)
(*   SpecReg     swd_core.c: dp/ap register access with retry              *)
(*   SpecMassErase  swd_flash.c: swd_flash_disable_approtect               *)
(*   SpecBlock   swd_mem.c: swd_mem_write_block32 against a MEM-AP         *)
(*   SpecNvmc    swd_flash.c: page erase, chip erase, word and buffer      *)
(*               write against the NVMC                                    *)
(*   SpecTransfer  swd_core.c: swd_transfer_raw and parity32               *)
(*   SpecConnect swd_core.c: swd_connect and swd_power_up                  *)
(*   SpecServer  main.c, web_upload.c: the request handlers that use the   *)
(*               link, run by the one server task                          *)
(*   SpecBuffer  swd_mem.c: swd_mem_write_buffer, swd_mem_read_buffer      *)
(*   SpecCoreReg swd_mem.c: core register read and write                   *)
(*   SpecErase   swd_flash.c: swd_flash_erase_page repeated on one page    *)
(*   SpecParser  hex_parser.c: parse_hex_line and hex_stream_parse under   *)
(*               the parse loop of the flash-from-file handler             *)
(*   SpecMassEraseRequest  web_upload.c, swd_flash.c: mass_erase_handler   *)
(*               with the DP SELECT register and the order of its steps    *)
(*   SpecWire    swd_core.c: swd_transfer_raw on the pins, called by two   *)
(*               tasks, with its critical section                          *)
(*   SpecReboot  main.c, power_mgmt.c: the failsafe reboot task and the    *)
(*               absolute uptime timer beside a flash request              *)
(*   SpecLink    swd_core.c: init, reinit, connect, disconnect, release,   *)
(*               reset, shutdown and clear-errors called in any order      *)
(*   SpecBufferedWrite  swd_flash.c, swd_mem.c: the two buffered writes on *)
(*               the same memory                                           *)
(*   SpecWindow  web_upload.c: the buffer window of the hex record callback*)
(*               on 32-bit addresses                                       *)
(*   SpecTftp    tftp_server.c: handle_write_request                       *)
(*   SpecChunks  hex_parser.c: hex_stream_parse on characters, fed in chunks*)
(*               and in one call                                           *)
(* A machine that a specification does not run keeps its initial state.    *)
(***************************************************************************)
EXTENDS Integers, Sequences, FiniteSets, TLC

VARIABLES
    \* ---- upload machine (web_upload.c) ----
    upPc,               \* position of flash_stored_handler
    g_mass_erased,      \* static bool g_mass_erased
    g_flash_in_progress,\* static bool g_flash_in_progress
    g_flash_status,     \* static char g_flash_status[128]
    status_msg,         \* upload_context_t.status_msg
    ctx,                \* upload_context_t: buffer_start_addr, buffer_data_len,
                        \*   page_buffer, flashed_bytes
    flash,              \* content of the target's flash (bytes that are not 0xFF)
    fed,                \* history: data records delivered to the callback
    eofSeen,            \* history: an end-of-file record was delivered
    eraseCalls,         \* history: pages passed to swd_flash_erase_page
    writeCalls,         \* history: calls of swd_flash_write_buffer
    flushFailed,        \* history: a flush of this upload returned an error
    startMassErased,    \* history: g_mass_erased when the upload started
    \* ---- register machine (swd_core.c) ----
    initialized,        \* static bool initialized
    regStack,           \* call stack of dp/ap accesses, innermost last
    regOp,              \* the access the caller asked for, "none" before the first
    regRet,             \* its return value, "pending" while it runs
    xfers,              \* history: swd_transfer_raw calls since it started
    acksSeen,           \* history: acknowledgements received since it started
    target,             \* how the target acknowledges during this access
    glitches,           \* non-OK acknowledgements of a flaky target so far
    \* ---- mass-erase machine (swd_flash.c, swd_flash_disable_approtect) ----
    connected,          \* static bool connected (swd_core.c)
    mePc,               \* position of swd_flash_disable_approtect
    meRet,              \* its return value, "pending" while it runs
    elapsed_ms,         \* uint32_t elapsed_ms of the status poll
    polls,              \* history: reads of ERASEALLSTATUS in this call
    ctrlApWrites,       \* history: CTRL-AP writes <<register, value>> of this call
    idrValue,           \* history: the CTRL-AP IDR read in this call, or "none"
    verifyReads,        \* history: the two verification reads, <<>> before them
    \* ---- block-write machine (swd_mem.c, swd_mem_write_block32) ----
    blkPc,              \* position of swd_mem_write_block32
    blkRet,             \* its return value, "pending" while it runs
    blkAddr,            \* uint32_t addr
    blkCount,           \* uint32_t count (words left)
    blkData,            \* data: index of the input word it points to
    blkI,               \* i of the inner loop
    words_in_page,      \* uint32_t words_in_page
    tar,                \* the MEM-AP's TAR register
    apWraps,            \* the MEM-AP wraps TAR at the 1 KB boundary (or carries)
    landed,             \* history: <<address, input word index>> written to memory
    tarWrites,          \* history: addresses passed to swd_ap_write(AP_TAR, ...)
    blkStart,           \* history: addr of the call
    blkTotal,           \* history: count of the call
    \* ---- NVMC machine (swd_flash.c: erase and write operations) ----
    nvPc,               \* position inside the running flash operation
    nvOp,               \* the operation called, "none" before the first
    nvRet,              \* its return value, "pending" while it runs
    nvmcConfig,         \* the target's NVMC CONFIG register
    configLog,          \* history: writes of NVMC_CONFIG attempted in this call
    nvAddr,             \* uint32_t addr
    nvSize,             \* uint32_t size (bytes left) of the buffered write
    nvWritten,          \* uint32_t written
    nvElapsed,          \* elapsed_ms of the erase poll / timeout of the final wait
    nvSample,           \* i of the verification loop
    memWrites,          \* history: memory writes issued, <<address, bytes>>
    \* ---- transfer machine (swd_core.c, swd_transfer_raw) ----
    xfIn,               \* the call: read or write, and what the target puts on the wire
    xfRet,              \* the acknowledgement returned (swd_ack_t), -1 before
    xfData,             \* *data of a read after the call, <<>> if not stored
    xfWire,             \* the word and parity bit driven by a write, or <<>>
    \* ---- connect machine (swd_core.c, swd_connect and swd_power_up) ----
    cnPc,               \* position of swd_connect
    cnRet,              \* its return value, "pending" while it runs
    cnLog,              \* history: what swd_connect has done, in order
    cnProbes,           \* history: the IDCODE reads, [ret, idcode] each
    cnPolls,            \* i of the power-up poll loop
    \* ---- server machine (main.c, web_upload.c: the SWD request handlers) ----
    svTask,             \* the handler the httpd task is running, "idle" between
    svPc,               \* position inside flash_stored_handler
    svPending,          \* requests received and not yet dispatched
    pinsDriven,         \* SWCLK/SWDIO are outputs (swd_init) or inputs (swd_shutdown)
    established,        \* history: swd_connect succeeded since the pins were released
    wire,               \* history: what swd_dp_disconnect drove since then
    lastRelease,        \* history: established and wire when the pins were last released
    svFresh,            \* history: swd_connect succeeded in the running handler
    svFinished,         \* history: the last handler that returned, and the link then
    svOverlap,          \* history: another handler used the link during a flash
    \* ---- buffer machine (swd_mem.c: swd_mem_write_buffer, swd_mem_read_buffer) ----
    mbPc,               \* position inside the running buffer operation
    mbMem,              \* the target's memory, word index -> 32-bit word
    mbAddr,             \* uint32_t addr
    mbSize,             \* uint32_t size (bytes left)
    mbPos,              \* bytes of the buffer consumed or filled (buffer += ...)
    mbIn,               \* the buffer passed to swd_mem_write_buffer
    mbOut,              \* the bytes swd_mem_read_buffer has stored so far
    mbWrite,            \* history: the write call, [addr, size, ret]
    mbRead,             \* history: the read call, [addr, size, ret]
    \* ---- core-register machine (swd_mem.c: swd_read/write_core_register) ----
    crPc,               \* position inside the running call
    crOp,               \* "read" or "write", "none" before the call
    crRet,              \* its return value, "pending" while it runs
    crHalted,           \* the target: the core is halted
    crPolls,            \* i of the register-ready loop
    crDhcsr,            \* uint32_t dhcsr, the last DHCSR word read
    crWrites,           \* history: debug registers written in this call
    crFailed,           \* history: an access of this call returned an error
    \* ---- repeated-erase machine (swd_flash.c: swd_flash_erase_page, again) ----
    etPc,               \* position inside swd_flash_erase_page
    etAddr,             \* uint32_t addr
    etElapsed,          \* uint32_t elapsed_ms
    etSample,           \* i of the verification loop
    etConfig,           \* the target's NVMC CONFIG register
    etPage,             \* the target's page: the offsets of its words that are not 0xFFFFFFFF
    etBusy,             \* the target: milliseconds until the running erase is done
    etBefore,           \* history: the page when the running call was entered
    etRuns,             \* history: one [before, ret, page, config] per call returned
    \* ---- parser machine (hex_parser.c and flash_stored_handler's parse loop) ----
    psPc,               \* "idle", "parsing", "done"
    psParser,           \* ctx->parser is not NULL
    extended_addr,      \* parser->extended_addr
    segment_addr,       \* parser->segment_addr
    line_count,         \* parser->line_count
    psCtx,              \* the upload context of this request
    psFlash,            \* the target's flash during this request
    psRet,              \* ret of flash_stored_handler, "none" before the request
    psStatus,           \* g_flash_status as this request leaves it
    psFed,              \* history: number of lines the stream had so far
    psRecords,          \* history: number of data records given to the callback
    psRejected,         \* history: a line of the stream was rejected
    psLog,              \* history: flushes and copies of the callback, in order
    \* ---- mass-erase request machine (mass_erase_handler and what it calls) ----
    mqPc,               \* position inside the running request, "idle" between requests
    mqRet,              \* return value of swd_flash_disable_approtect, "none" before it runs
    mqInitialized,      \* the link's initialized flag during the request
    dpSelect,           \* the target's DP SELECT register: <<APSEL, APBANKSEL>>
    mqElapsed,          \* elapsed_ms of the status poll
    mqFailedPolls,      \* status reads of this request that failed
    eraseStatus,        \* the ERASEALLSTATUS word the status poll left with
    mqEvents,           \* history: the steps of the mass erase, in order
    memApSelects,       \* history: DP SELECT at the AP transfers of memory operations
    \* ---- wire machine (swd_core.c: swd_transfer_raw at the pins, two tasks) ----
    wrPc,               \* per task: position inside swd_transfer_raw
    wrRead,             \* per task: the read argument of its transfer
    wrAck,              \* per task: the acknowledgement bits read, NO_ACK before
    wrRet,              \* per task: the value returned, NO_ACK before the return
    wrDelivered,        \* per task: *data was assigned by the transfer
    wrXfer,             \* per task: number of its transfer, 0 outside one
    swd_mutex,          \* the task inside the critical section, 0 when none is
    drive_phase,        \* static bool drive_phase
    pinDir,             \* SWDIO output enable: "driving" or "released"
    wrStarted,          \* history: transfers started so far
    pinLog,             \* history: pin activity, each entry with its transfer number
    \* ---- reboot machine (main.c failsafe task and main loop, power_mgmt.c) ----
    rbFlash,            \* the server task: "idle" or "flashing" (inside flash_stored_handler)
    rbFlashes,          \* history: flash requests started
    rbFailsafe,         \* failsafe_reboot_task: "counting" or "stopping" (in stop_webserver)
    elapsed_sec,        \* failsafe_reboot_task: elapsed_sec, in periods of 10 s
    rtc_total_uptime_sec, \* accumulated uptime, in checks of the main loop
    rbRestarted,        \* "no", or who called esp_restart: "failsafe", "absolute"
    rbFlashAtRestart,   \* history: a flash request was running when esp_restart was called
    \* ---- link interface machine (swd_core.c, the calls in any order) ----
    lkInitialized,      \* swd_core.c: initialized
    lkConnected,        \* swd_core.c: connected
    pin_reset,          \* swd_core.c: config.pin_reset
    lkCall,             \* the last call: its name, its inputs, the flags before it
    lkSteps,            \* what the last call did to the target, in order
    \* ---- buffered-write comparison (swd_flash.c and swd_mem.c on one memory) ----
    bwPc,               \* "idle", "called" (inputs chosen), "done" (both writes made)
    bwKind,             \* the memory written: "flash" being programmed, or "ram"
    bwAddr,             \* addr
    bwData,             \* data, a sequence of bytes
    bwBefore,           \* the memory before the write
    bwFlash,            \* the memory as swd_flash_write_buffer leaves it
    bwMem,              \* the memory as swd_mem_write_buffer leaves it
    bwRan,              \* which of the two has run
    \* ---- window machine (hex_flash_callback on 32-bit addresses) ----
    wnStart,            \* uctx->buffer_start_addr, a 32-bit word <<high half, low half>>
    wnLen,              \* uctx->buffer_data_len
    wnCopy,             \* the last memcpy into page_buffer: its offset (32 bits) and its length
    wnFlushed,          \* the last record made the callback call flush_buffer
    wnRecords,          \* data records given to the callback
    \* ---- TFTP machine (tftp_server.c, handle_write_request) ----
    tfPc,               \* "idle", "loop" (at the while), "broke" (after a break), "closed"
    expected_block,     \* handle_write_request: expected_block
    total_received,     \* handle_write_request: total_received
    transfer_complete,  \* handle_write_request: transfer_complete
    consecutive_timeouts, \* handle_write_request: consecutive_timeouts
    tfFile,             \* /storage/firmware.hex: the blocks written, [block, len], in order
    tfExists,           \* the file exists
    tfPacket,           \* the packet the last turn of the loop received
    tfSent,             \* what the last turn of the loop sent, in order
    \* ---- chunk machine (hex_stream_parse fed in chunks and in one call) ----
    ckPc,               \* "idle", "reading" (chunks are being fed), "done"
    ckStream,           \* the bytes of the file
    ckPos,              \* how many of them the chunks have covered
    ckParser,           \* the parser that is fed the chunks
    ckWhole,            \* the parser that is fed the stream in one call
    ckChunks,           \* chunks fed, counted up to 2
    ckSplitLine         \* a chunk ended inside a line

uploadVars == <<upPc, g_mass_erased, g_flash_in_progress, g_flash_status,
                status_msg, ctx, flash, fed, eofSeen, eraseCalls, writeCalls,
                flushFailed, startMassErased>>

regVars == <<initialized, regStack, regOp, regRet, xfers, acksSeen, target, glitches>>

meVars == <<connected, mePc, meRet, elapsed_ms, polls, ctrlApWrites, idrValue,
            verifyReads>>

blkVars == <<blkPc, blkRet, blkAddr, blkCount, blkData, blkI, words_in_page, tar,
             apWraps, landed, tarWrites, blkStart, blkTotal>>

nvVars == <<nvPc, nvOp, nvRet, nvmcConfig, configLog, nvAddr, nvSize, nvWritten,
            nvElapsed, nvSample, memWrites>>

xfVars == <<xfIn, xfRet, xfData, xfWire>>

cnVars == <<cnPc, cnRet, cnLog, cnProbes, cnPolls>>

svVars == <<svTask, svPc, svPending, pinsDriven, established, wire, lastRelease,
            svFresh, svFinished, svOverlap>>

mbVars == <<mbPc, mbMem, mbAddr, mbSize, mbPos, mbIn, mbOut, mbWrite, mbRead>>

crVars == <<crPc, crOp, crRet, crHalted, crPolls, crDhcsr, crWrites, crFailed>>

etVars == <<etPc, etAddr, etElapsed, etSample, etConfig, etPage, etBusy, etBefore,
            etRuns>>

psVars == <<psPc, psParser, extended_addr, segment_addr, line_count, psCtx, psFlash,
            psRet, psStatus, psFed, psRecords, psRejected, psLog>>

mqVars == <<mqPc, mqRet, mqInitialized, dpSelect, mqElapsed, mqFailedPolls, eraseStatus,
            mqEvents, memApSelects>>

wrVars == <<wrPc, wrRead, wrAck, wrRet, wrDelivered, wrXfer, swd_mutex, drive_phase, pinDir,
            wrStarted, pinLog>>

rbVars == <<rbFlash, rbFlashes, rbFailsafe, elapsed_sec, rtc_total_uptime_sec, rbRestarted,
            rbFlashAtRestart>>

lkVars == <<lkInitialized, lkConnected, pin_reset, lkCall, lkSteps>>

bwVars == <<bwPc, bwKind, bwAddr, bwData, bwBefore, bwFlash, bwMem, bwRan>>

wnVars == <<wnStart, wnLen, wnCopy, wnFlushed, wnRecords>>

tfVars == <<tfPc, expected_block, total_received, transfer_complete, consecutive_timeouts,
            tfFile, tfExists, tfPacket, tfSent>>

ckVars == <<ckPc, ckStream, ckPos, ckParser, ckWhole, ckChunks, ckSplitLine>>

vars == <<uploadVars, regVars, meVars, blkVars, nvVars, xfVars, cnVars, svVars, mbVars, crVars, etVars, psVars, mqVars, wrVars, rbVars, lkVars, bwVars, wnVars, tfVars, ckVars>>

\* What the actions of one machine leave alone: the other machines
notUpload == <<regVars, meVars, blkVars, nvVars, xfVars, cnVars, svVars, mbVars, crVars, etVars, psVars, mqVars, wrVars, rbVars, lkVars, bwVars, wnVars, tfVars, ckVars>>
notReg == <<uploadVars, meVars, blkVars, nvVars, xfVars, cnVars, svVars, mbVars, crVars, etVars, psVars, mqVars, wrVars, rbVars, lkVars, bwVars, wnVars, tfVars, ckVars>>
notMe == <<uploadVars, regVars, blkVars, nvVars, xfVars, cnVars, svVars, mbVars, crVars, etVars, psVars, mqVars, wrVars, rbVars, lkVars, bwVars, wnVars, tfVars, ckVars>>
notBlk == <<uploadVars, regVars, meVars, nvVars, xfVars, cnVars, svVars, mbVars, crVars, etVars, psVars, mqVars, wrVars, rbVars, lkVars, bwVars, wnVars, tfVars, ckVars>>
notNv == <<uploadVars, regVars, meVars, blkVars, xfVars, cnVars, svVars, mbVars, crVars, etVars, psVars, mqVars, wrVars, rbVars, lkVars, bwVars, wnVars, tfVars, ckVars>>
notXf == <<uploadVars, regVars, meVars, blkVars, nvVars, cnVars, svVars, mbVars, crVars, etVars, psVars, mqVars, wrVars, rbVars, lkVars, bwVars, wnVars, tfVars, ckVars>>

-----------------------------------------------------------------------------
(* Error codes (esp_err_t) *)
ESP_OK == "ESP_OK"
ESP_FAIL == "ESP_FAIL"
ESP_ERR_INVALID_ARG == "ESP_ERR_INVALID_ARG"
ESP_ERR_INVALID_STATE == "ESP_ERR_INVALID_STATE"
ESP_ERR_TIMEOUT == "ESP_ERR_TIMEOUT"
ESP_ERR_NOT_FOUND == "ESP_ERR_NOT_FOUND"

(* Arithmetic helpers *)
Min(a, b) == IF a < b THEN a ELSE b

RECURSIVE BitAndN(_, _, _)
BitAndN(a, b, n) ==
    IF n = 0 THEN 0
    ELSE (a % 2) * (b % 2) + 2 * BitAndN(a \div 2, b \div 2, n - 1)

\* Bitwise AND of two bytes (0xFF is the neutral element)
ByteAnd(a, b) ==
    IF a = 255 THEN b ELSE IF b = 255 THEN a ELSE BitAndN(a, b, 8)

-----------------------------------------------------------------------------
(* Upload machine: constants of web_upload.c and swd_flash.h *)
PAGE_BUFFER_SIZE == 4096
NRF52_PAGE_SIZE == 4096
NRF52_FLASH_SIZE == 1048576
UICR_PAGE == 268439552   \* 0x10001000

(* Bounds of the upload machine *)
MaxRecords == 2          \* data records per upload

\* Start addresses and byte counts of the data records fed to the callback
RecordAddrs == {4092, 4096, 4104, 4112, 8192}   \* 0xFFC 0x1000 0x1008 0x1010 0x2000
RecordLens == {10}

\* Byte i of the k-th data record of an upload
DataByte(k, i) == 16 * k + i

\* The erased value of a flash byte, and what memset(…, 0xFF, …) leaves
ERASED_BYTE == 255

\* A sparse byte map: absent keys read as 0xFF
MapGet(m, a) == IF a \in DOMAIN m THEN m[a] ELSE ERASED_BYTE

PageOf(a) == a - (a % NRF52_PAGE_SIZE)


EmptyMap == [a \in {} |-> 0]

\* Initial content of the tracked flash bytes: an older firmware
TrackedAddrs == UNION {{a + i : i \in 0..(l - 1)} : <<a, l>> \in RecordAddrs \X RecordLens}
OldFirmware == [a \in TrackedAddrs |-> 0]

\* upload_context_t after calloc and memset(page_buffer, 0xFF, PAGE_BUFFER_SIZE)
NewContext == [buffer_start_addr |-> 0, buffer_data_len |-> 0,
               page_buffer |-> EmptyMap, flashed_bytes |-> 0]

\* Outcome of the SWD operations of one flush: all succeed, the n-th page
\* erase fails, the write fails before or after its bytes reached the flash
FlushOutcomes == {"ok", "erase1", "erase2", "write_fail", "write_late"}
EraseFailIndex(out) == IF out = "erase1" THEN 1 ELSE IF out = "erase2" THEN 2 ELSE 0

\* swd_flash_erase_page: the argument check
ErasePageArgOk(addr) == ~(addr >= NRF52_FLASH_SIZE /\ addr # UICR_PAGE)

\* swd_flash_erase_page: the effect of a successful erase on the flash
ErasePage(fl, page) == [a \in {x \in DOMAIN fl : PageOf(x) # page} |-> fl[a]]

\* NVMC programming clears bits only: new = old AND data, byte by byte over
\* [addr, addr+len); bytes of the buffer nobody copied are 0xFF
WriteBytes(fl, addr, len, buf) ==
    LET touched == {addr + i : i \in 0..(len - 1)}
        new(a) == IF a \in touched
                  THEN ByteAnd(MapGet(fl, a), MapGet(buf, a - addr))
                  ELSE fl[a]
        dom == {a \in (DOMAIN fl) \cup touched : new(a) # ERASED_BYTE}
    IN [a \in dom |-> new(a)]

\* flush_buffer: the pages of the erase loop, first to last
FlushPages(start, len) ==
    LET first == PageOf(start)
        last == PageOf(start + len - 1)
        n == ((last - first) \div NRF52_PAGE_SIZE) + 1
    IN [i \in 1..n |-> first + (i - 1) * NRF52_PAGE_SIZE]

\* flush_buffer: the erase loop from page i on; the failAt-th call fails
RECURSIVE EraseLoop(_, _, _, _, _)
EraseLoop(fl, pages, i, failAt, calls) ==
    IF i > Len(pages) THEN [ok |-> TRUE, flash |-> fl, calls |-> calls]
    ELSE IF i = failAt \/ ~ErasePageArgOk(pages[i])
         THEN [ok |-> FALSE, flash |-> fl, calls |-> Append(calls, pages[i])]
         ELSE EraseLoop(ErasePage(fl, pages[i]), pages, i + 1, failAt,
                        Append(calls, pages[i]))

\* flush_buffer: whether the page erases are skipped
SkipErase(me) == me

\* flush_buffer(ctx) with the outcome out of its SWD operations
FlushBuffer(c, fl, me, out) ==
    IF c.buffer_data_len = 0
    THEN [ret |-> ESP_OK, ctx |-> c, flash |-> fl, erases |-> <<>>, writes |-> <<>>]
    ELSE
      LET er == IF SkipErase(me)
                THEN [ok |-> TRUE, flash |-> fl, calls |-> <<>>]
                ELSE EraseLoop(fl, FlushPages(c.buffer_start_addr, c.buffer_data_len),
                               1, EraseFailIndex(out), <<>>)
          call == [addr |-> c.buffer_start_addr, len |-> c.buffer_data_len,
                   data |-> [o \in {x \in DOMAIN c.page_buffer : x < c.buffer_data_len}
                                |-> c.page_buffer[o]]]
          written == WriteBytes(er.flash, c.buffer_start_addr, c.buffer_data_len,
                                c.page_buffer)
      IN IF ~er.ok
         THEN [ret |-> ESP_FAIL, ctx |-> c, flash |-> er.flash,
               erases |-> er.calls, writes |-> <<>>]
         ELSE IF out = "write_fail"
         THEN [ret |-> ESP_FAIL, ctx |-> c, flash |-> er.flash,
               erases |-> er.calls, writes |-> <<call>>]
         ELSE IF out = "write_late"
         THEN [ret |-> ESP_FAIL, ctx |-> c, flash |-> written,
               erases |-> er.calls, writes |-> <<call>>]
         ELSE [ret |-> ESP_OK,
               ctx |-> [c EXCEPT !.flashed_bytes = @ + c.buffer_data_len,
                                 !.page_buffer = EmptyMap,
                                 !.buffer_data_len = 0],
               flash |-> written, erases |-> er.calls, writes |-> <<call>>]

\* hex_flash_callback: offset_in_buffer = abs_addr - buffer_start_addr. The
\* record addresses of this machine lie below 2^31 and the callback uses the
\* difference only where abs_addr >= buffer_start_addr, so it does not wrap.
OffsetInBuffer(c, abs_addr) == abs_addr - c.buffer_start_addr

\* Mutant of NeedsFlush: any record that does not start at the end of the
\* buffered bytes is flushed first
NeedsFlush_OnlyAppend(c, abs_addr, count) ==
    /\ c.buffer_data_len # 0
    /\ abs_addr # c.buffer_start_addr + c.buffer_data_len

\* hex_flash_callback, HEX_TYPE_DATA: the record does not go into the
\* current window and the buffer is flushed first
NeedsFlush(c, abs_addr, count) ==
    /\ c.buffer_data_len # 0
    /\ \/ abs_addr < c.buffer_start_addr
       \/ OffsetInBuffer(c, abs_addr) + count > PAGE_BUFFER_SIZE

\* memcpy(page_buffer + off, record->data, count) for the k-th record
CopyRecord(buf, off, count, k) ==
    [o \in (DOMAIN buf) \cup {off + i : i \in 0..(count - 1)} |->
        IF o >= off /\ o < off + count THEN DataByte(k, o - off) ELSE buf[o]]

\* hex_flash_callback, HEX_TYPE_DATA, on the k-th record; f is the result of
\* the flush it makes when NeedsFlush (its return value is not looked at)
DataCallback(c, f, abs_addr, count, k) ==
    LET flushed == NeedsFlush(c, abs_addr, count)
        c1 == IF flushed THEN f.ctx ELSE c
        fresh == c.buffer_data_len = 0 \/ flushed
        start == IF fresh THEN abs_addr ELSE c1.buffer_start_addr
        off == IF fresh THEN 0 ELSE OffsetInBuffer(c1, abs_addr)
        new_end == off + count
    IN [c1 EXCEPT !.buffer_start_addr = start,
                  !.page_buffer = CopyRecord(@, off, count, k),
                  !.buffer_data_len = IF new_end > @ THEN new_end ELSE @]


\* The flush a handler step makes, or none
NoFlush(c, fl) == [ret |-> ESP_OK, ctx |-> c, flash |-> fl, erases |-> <<>>, writes |-> <<>>]

\* History of the SWD calls and results of a flush f
NoteFlush(f) ==
    /\ eraseCalls' = eraseCalls \o f.erases
    /\ writeCalls' = writeCalls \o f.writes
    /\ flushFailed' = (flushFailed \/ f.ret # ESP_OK)

\* flash_stored_handler up to the parse loop: the file is there and opens;
\* ensure_swd_ready succeeds or fails. The machine follows one flash request,
\* which mass-erase requests may precede.
StartFlash(swdReady) ==
    /\ upPc = "idle"
    /\ g_flash_in_progress' = swdReady
    /\ g_flash_status' = IF swdReady THEN "Starting flash..." ELSE "SWD not ready"
    /\ upPc' = IF swdReady THEN "parsing" ELSE "done"
    /\ ctx' = NewContext
    /\ status_msg' = ""
    /\ fed' = <<>>
    /\ eofSeen' = FALSE
    /\ eraseCalls' = <<>>
    /\ writeCalls' = <<>>
    /\ flushFailed' = FALSE
    /\ startMassErased' = g_mass_erased
    /\ UNCHANGED <<g_mass_erased, flash>>
    /\ UNCHANGED notUpload

\* The parse loop delivers a data record: hex_flash_callback, HEX_TYPE_DATA
DataRecord(abs_addr, count, out) ==
    /\ upPc = "parsing"
    /\ ~eofSeen
    /\ Len(fed) < MaxRecords
    /\ LET k == Len(fed) + 1
           f == IF NeedsFlush(ctx, abs_addr, count)
                THEN FlushBuffer(ctx, flash, g_mass_erased, out)
                ELSE NoFlush(ctx, flash)
       IN /\ ctx' = DataCallback(ctx, f, abs_addr, count, k)
          /\ flash' = f.flash
          /\ NoteFlush(f)
          /\ fed' = Append(fed, [addr |-> abs_addr, len |-> count, k |-> k])
    /\ g_flash_status' = "Flashing"
    /\ UNCHANGED <<upPc, g_mass_erased, g_flash_in_progress, status_msg, eofSeen,
                   startMassErased>>
    /\ UNCHANGED notUpload

\* The parse loop delivers the end-of-file record: hex_flash_callback, HEX_TYPE_EOF
EofRecord(out) ==
    /\ upPc = "parsing"
    /\ ~eofSeen
    /\ LET f == FlushBuffer(ctx, flash, g_mass_erased, out)
       IN /\ ctx' = f.ctx
          /\ flash' = f.flash
          /\ NoteFlush(f)
    /\ g_mass_erased' = FALSE
    /\ status_msg' = "Success"
    /\ eofSeen' = TRUE
    /\ g_flash_status' = "Flashing"
    /\ UNCHANGED <<upPc, g_flash_in_progress, fed, startMassErased>>
    /\ UNCHANGED notUpload

\* flash_stored_handler after the parse loop: hex_stream_parse returned ESP_OK
\* for every chunk, so ret is ESP_OK and the final status is set
FinishFlash ==
    /\ upPc = "parsing"
    /\ upPc' = "done"
    /\ g_flash_status' = "Flash complete"
    /\ g_flash_in_progress' = FALSE
    /\ UNCHANGED <<g_mass_erased, status_msg, ctx, flash, fed, eofSeen, eraseCalls,
                   writeCalls, flushFailed, startMassErased>>
    /\ UNCHANGED notUpload

\* mass_erase_handler: swd_flash_disable_approtect returns ESP_OK or an error;
\* the target's flash is erased by it or not
MassEraseHandler(ok, erased) ==
    /\ upPc = "idle"
    /\ g_mass_erased' = (IF ok THEN TRUE ELSE g_mass_erased)
    /\ flash' = IF erased THEN EmptyMap ELSE flash
    /\ UNCHANGED <<upPc, g_flash_in_progress, g_flash_status, status_msg, ctx, fed,
                   eofSeen, eraseCalls, writeCalls, flushFailed, startMassErased>>
    /\ UNCHANGED notUpload

UploadInit ==
    /\ upPc = "idle"
    /\ g_mass_erased = FALSE
    /\ g_flash_in_progress = FALSE
    /\ g_flash_status = "Idle"
    /\ status_msg = ""
    /\ ctx = NewContext
    /\ flash = OldFirmware
    /\ fed = <<>>
    /\ eofSeen = FALSE
    /\ eraseCalls = <<>>
    /\ writeCalls = <<>>
    /\ flushFailed = FALSE
    /\ startMassErased = FALSE

UploadNext ==
    \/ \E r \in BOOLEAN : StartFlash(r)
    \/ \E a \in RecordAddrs, n \in RecordLens, out \in FlushOutcomes : DataRecord(a, n, out)
    \/ \E out \in FlushOutcomes : EofRecord(out)
    \/ FinishFlash
    \/ \E ok \in BOOLEAN, e \in BOOLEAN : MassEraseHandler(ok, e)



-----------------------------------------------------------------------------
(* Claims about the upload machine *)

\* The data records of the stream have pairwise disjoint address ranges
NonOverlapping ==
    \A i, j \in 1..Len(fed) :
        i < j => \/ fed[i].addr + fed[i].len <= fed[j].addr
                 \/ fed[j].addr + fed[j].len <= fed[i].addr

\* Every data record lies inside the flash
InsideFlash == \A i \in 1..Len(fed) : fed[i].addr + fed[i].len <= NRF52_FLASH_SIZE

\* Every data byte of the stream is in the flash at its absolute address
StreamBytesInFlash ==
    \A i \in 1..Len(fed) : \A o \in 0..(fed[i].len - 1) :
        MapGet(flash, fed[i].addr + o) = DataByte(fed[i].k, o)

\* C1: when a stream of non-overlapping data records inside the flash has ended
\* with an end-of-file record, every SWD operation succeeded and no mass erase
\* preceded, every data byte of the stream is at its address in the flash.
C1_StreamBytesPresent ==
    (eofSeen /\ ~flushFailed /\ ~startMassErased /\ NonOverlapping /\ InsideFlash)
        => StreamBytesInFlash

\* C2: an upload in which a flush failed does not end reported as 'Success'
\* or 'Flash complete'.
C2_FailedFlushSurfaced ==
    (upPc = "done" /\ flushFailed)
        => (g_flash_status # "Flash complete" /\ status_msg # "Success")

\* The stream of the scenario: 10 bytes at 0x1000, 10 bytes at 0x1008, end of file
OverlapScenario ==
    /\ eofSeen
    /\ fed = <<[addr |-> 4096, len |-> 10, k |-> 1], [addr |-> 4104, len |-> 10, k |-> 2]>>

\* One page erase, one write of 0x1000..0x1011, the second record's bytes
\* where the two records overlap
OneEraseOneWrite ==
    /\ eraseCalls = <<4096>>
    /\ Len(writeCalls) = 1
    /\ writeCalls[1].addr = 4096
    /\ writeCalls[1].len = 18
    /\ \A o \in 0..7 : MapGet(writeCalls[1].data, o) = DataByte(1, o)
    /\ \A o \in 8..17 : MapGet(writeCalls[1].data, o) = DataByte(2, o - 8)

C22_FlagClearedAfterUpload == upPc = "done" => ~g_mass_erased

\* A step in which the parse loop delivered a data record to a buffer that
\* holds data; the record is the last one of fed'
DataStepOnBufferedData == Len(fed') = Len(fed) + 1 /\ ctx.buffer_data_len # 0

\* The record of the step lies in the window of PAGE_BUFFER_SIZE bytes that
\* starts at the buffer's start address
RecordInWindow ==
    LET rec == fed'[Len(fed')]
    IN /\ rec.addr >= ctx.buffer_start_addr
       /\ rec.addr - ctx.buffer_start_addr + rec.len <= PAGE_BUFFER_SIZE

\* The record of the step starts after the end of the buffered bytes
RecordLeavesGap ==
    fed'[Len(fed')].addr > ctx.buffer_start_addr + ctx.buffer_data_len

\* The record of the step was merged: the buffer keeps its start address and
\* no flush was made
RecordMerged ==
    /\ ctx'.buffer_start_addr = ctx.buffer_start_addr
    /\ eraseCalls' = eraseCalls
    /\ writeCalls' = writeCalls
    /\ flushFailed' = flushFailed

\* The buffer was flushed and restarted at the record of the step
RecordRestartsBuffer ==
    /\ ctx'.buffer_start_addr = fed'[Len(fed')].addr
    /\ ctx'.buffer_start_addr # ctx.buffer_start_addr

BufferEmptyAtAssignment ==
    \/ ctx.buffer_data_len = 0
    \/ ctx'.flashed_bytes = ctx.flashed_bytes + ctx.buffer_data_len

\* C26: the buffer's start address changes only at a moment when the buffer
\* is empty, after a flush that failed too.
C26_StartChangesOnlyWhenEmpty ==
    [][ctx'.buffer_start_addr # ctx.buffer_start_addr => BufferEmptyAtAssignment]_vars

-----------------------------------------------------------------------------
(* Register machine: swd_dp_read, swd_dp_write, swd_ap_read, swd_ap_write,    *)
(* swd_clear_errors. A frame of regStack is one running call: fn, the         *)
(* register it accesses and the loop counter retry.                           *)

RETRY_MAX == 10          \* for (int retry = 0; retry < 10; retry++)

(* Bounds of the register machine *)
MaxDepth == 24           \* nested calls the model follows
MaxGlitches == 2         \* non-OK acknowledgements of a flaky target per access

\* swd_ack_t, by name
Acks == {"OK", "WAIT", "FAULT", "NACK"}

\* The accesses a caller can ask for
RegFns == {"dp_read", "dp_write", "ap_read", "ap_write"}

\* Targets: one that always answers the same, or one that answers anything
\* a bounded number of times and OK otherwise
Targets == {"ok", "wait", "fault", "nack", "flaky"}

AcksOf(t, g) ==
    CASE t = "ok" -> {"OK"}
      [] t = "wait" -> {"WAIT"}
      [] t = "fault" -> {"FAULT"}
      [] t = "nack" -> {"NACK"}
      [] OTHER -> IF g < MaxGlitches THEN Acks ELSE {"OK"}

Frame(fn, reg) == [fn |-> fn, reg |-> reg, retry |-> 0]

\* swd_clear_errors: swd_dp_write(DP_ABORT, 0x1E)
ClearErrorsFrame == Frame("dp_write", "DP_ABORT")

\* Mutant of LoopContinues: the loop bound is off by one
LoopContinues_OffByOne(retry) == retry <= RETRY_MAX

\* The loop condition retry < 10 of the four accesses
LoopContinues(retry) == retry < RETRY_MAX

Top(st) == st[Len(st)]
Rest(st) == SubSeq(st, 1, Len(st) - 1)

\* The innermost call returns ret. A caller is inside its FAULT branch: it
\* drops the result of swd_clear_errors and goes to its next iteration; when
\* its loop is over it returns ESP_FAIL in turn.
RECURSIVE ReturnFrom(_, _)
ReturnFrom(st, ret) ==
    LET rest == Rest(st)
        caller == [rest EXCEPT ![Len(rest)].retry = @ + 1]
    IN IF rest = <<>> THEN [stack |-> <<>>, ret |-> ret]
       ELSE IF LoopContinues(Top(caller).retry)
            THEN [stack |-> caller, ret |-> "pending"]
            ELSE ReturnFrom(caller, ESP_FAIL)

\* The innermost call goes to its next iteration (WAIT, or an acknowledgement
\* that is none of OK, WAIT, FAULT)
NextIteration(st) ==
    LET st1 == [st EXCEPT ![Len(st)].retry = @ + 1]
    IN IF LoopContinues(Top(st1).retry)
       THEN [stack |-> st1, ret |-> "pending"]
       ELSE ReturnFrom(st1, ESP_FAIL)

\* One swd_transfer_raw of the innermost call, acknowledged with ack, and
\* what the call does with it
AfterTransfer(st, ack) ==
    CASE ack = "OK" ->
            IF Top(st).fn = "ap_read"
            THEN \* return swd_dp_read(DP_RDBUFF, data)
                 [stack |-> Append(Rest(st), Frame("dp_read", "DP_RDBUFF")), ret |-> "pending"]
            ELSE ReturnFrom(st, ESP_OK)
      [] ack = "FAULT" -> [stack |-> Append(st, ClearErrorsFrame), ret |-> "pending"]
      [] OTHER -> NextIteration(st)

\* swd_init (the part this machine needs: initialized = true)
SwdInit ==
    /\ regStack = <<>>
    /\ ~initialized
    /\ initialized' = TRUE
    /\ UNCHANGED <<regStack, regOp, regRet, xfers, acksSeen, target, glitches>>
    /\ UNCHANGED notReg

\* A caller starts one of the four accesses on register reg of a target t
RegCall(fn, t) ==
    /\ regStack = <<>>
    /\ regOp' = fn
    /\ xfers' = 0
    /\ acksSeen' = {}
    /\ target' = t
    /\ glitches' = 0
    /\ IF ~initialized
       THEN regStack' = <<>> /\ regRet' = ESP_ERR_INVALID_STATE
       ELSE regStack' = <<Frame(fn, "REG")>> /\ regRet' = "pending"
    /\ UNCHANGED initialized
    /\ UNCHANGED notReg

\* The innermost call makes one transfer and acts on the acknowledgement
Transfer(ack) ==
    /\ regStack # <<>>
    /\ ack \in AcksOf(target, glitches)
    /\ ack = "FAULT" => Len(regStack) < MaxDepth
    /\ LET r == AfterTransfer(regStack, ack)
       IN regStack' = r.stack /\ regRet' = r.ret
    /\ xfers' = xfers + 1
    /\ acksSeen' = acksSeen \cup {ack}
    /\ glitches' = IF target = "flaky" /\ ack # "OK" THEN glitches + 1 ELSE glitches
    /\ UNCHANGED <<initialized, regOp, target>>
    /\ UNCHANGED notReg

RegInit ==
    /\ initialized = FALSE
    /\ regStack = <<>>
    /\ regOp = "none"
    /\ regRet = "none"
    /\ xfers = 0
    /\ acksSeen = {}
    /\ target = "ok"
    /\ glitches = 0

RegNext ==
    \/ SwdInit
    \/ \E fn \in RegFns, t \in Targets : RegCall(fn, t)
    \/ \E ack \in Acks : Transfer(ack)

-----------------------------------------------------------------------------
(* Claims about the register machine *)

\* The access the caller asked for has returned
RegReturned == regOp # "none" /\ regRet # "pending"

\* C3: an access whose every transfer is answered with WAIT makes exactly 10
\* transfer attempts and then returns failure: at no moment more than 10, and
\* exactly 10 when it returns.
C3_WaitExactlyTen ==
    (acksSeen = {"WAIT"})
        => /\ xfers <= RETRY_MAX
           /\ regRet \in {"pending", ESP_FAIL}
           /\ regRet = "pending" => xfers < RETRY_MAX
           /\ regRet = ESP_FAIL => xfers = RETRY_MAX

C3_Witness ==
    /\ regOp = "ap_write" /\ regRet = ESP_FAIL
    /\ acksSeen = {"WAIT"} /\ xfers = RETRY_MAX

\* C4: an access whose every transfer is answered with FAULT stays within the
\* retry bound: at most 10 attempts of the access, each followed by one
\* sticky-fault clear, so at most 2 * 10 transfers.
C4_FaultBounded == (acksSeen = {"FAULT"}) => xfers <= 2 * RETRY_MAX

\* The access ran out of its retry budget: it returned after RETRY_MAX
\* transfers none of which was acknowledged with OK
RetryExhausted ==
    /\ RegReturned
    /\ xfers >= RETRY_MAX
    /\ "OK" \notin acksSeen

\* C18: an access whose retry loop ran out of budget returns a timeout error,
\* which is neither the generic failure code nor the invalid-state error.
C18_ExhaustedIsTimeout ==
    RetryExhausted => /\ regRet = ESP_ERR_TIMEOUT
                      /\ regRet \notin {ESP_FAIL, ESP_ERR_INVALID_STATE}

\* C21: an access attempted before swd_init, or after it and before a
\* successful swd_connect, makes no transfer on the wire and returns
\* ESP_ERR_INVALID_STATE.
C21_NoAccessBeforeConnect ==
    (regOp # "none" /\ ~connected) =>
        /\ xfers = 0
        /\ RegReturned => regRet = ESP_ERR_INVALID_STATE

-----------------------------------------------------------------------------
(* Mass-erase machine: swd_flash_disable_approtect (swd_flash.c)           *)
(* A 32-bit word is a pair <<high half, low half>> of 16-bit numbers.      *)
(* The register accesses the function makes are those of the register      *)
(* machine; here each one is its return value and the value it read.       *)

TIMEOUT_MS == 15000
POLL_MS == 100

\* The most status reads of one call that fail
MaxFailedPolls == 3

CTRL_AP_RESET == "CTRL_AP_RESET"
CTRL_AP_ERASEALL == "CTRL_AP_ERASEALL"

ERASED_WORD == <<65535, 65535>>
ZERO_WORD == <<0, 0>>

\* value & 0x0FFFFFFF
Mask28(v) == <<v[1] % 4096, v[2]>>

\* Mutant of IdrMatches: the identification check accepts every device
IdrMatches_Any(v) == TRUE

\* (value & 0x0FFFFFFF) == 0x02880000
IdrMatches(v) == Mask28(v) = <<648, 0>>

\* What swd_dp_read, swd_dp_write, swd_ap_read, swd_ap_write return
AccessRets == {ESP_OK, ESP_FAIL, ESP_ERR_INVALID_STATE}

\* What swd_connect returns on an initialized link
ConnectRets == {ESP_OK, ESP_FAIL, ESP_ERR_TIMEOUT}

\* DP IDCODE values: none read, a floating line, a Cortex-M4 debug port
IdcodeValues == {ZERO_WORD, ERASED_WORD, <<11168, 5239>>}

\* CTRL-AP IDR values: the Nordic CTRL-AP in three revisions, an AHB-AP,
\* nothing, and two that differ from the Nordic value in one bit
IdrValues == {<<648, 0>>, <<4744, 0>>, <<8840, 0>>,
              <<9335, 17>>, ZERO_WORD, <<648, 1>>, <<649, 0>>}

\* ERASEALLSTATUS values: ready, busy
StatusValues == {ZERO_WORD, <<0, 1>>}

\* A verification read: swd_mem_read32 failed, or read this word
VerifyOutcomes ==
    {[ret |-> ESP_FAIL, val |-> "none"]}
        \cup {[ret |-> ESP_OK, val |-> v] : v \in {ERASED_WORD, ZERO_WORD, <<8192, 1024>>}}

MeReturn(ret) == mePc' = "done" /\ meRet' = ret

MeGoto(pc) == mePc' = pc /\ meRet' = "pending"

\* swd_connect as the callers of the mass erase run it before
SwdConnect(ret) ==
    /\ mePc \in {"idle", "done"}
    /\ initialized
    /\ ret \in ConnectRets
    /\ connected' = (connected \/ ret = ESP_OK)
    /\ UNCHANGED <<mePc, meRet, elapsed_ms, polls, ctrlApWrites, idrValue, verifyReads>>
    /\ UNCHANGED notMe

\* Entry: swd_is_connected (alive: its IDCODE read is valid), swd_clear_errors,
\* swd_get_idcode
MeEntry(alive, idcode) ==
    /\ mePc \in {"idle", "done"}
    /\ idcode \in IdcodeValues
    /\ elapsed_ms' = 0
    /\ polls' = 0
    /\ ctrlApWrites' = {}
    /\ idrValue' = "none"
    /\ verifyReads' = <<>>
    /\ IF ~connected \/ ~alive
       THEN connected' = FALSE /\ MeReturn(ESP_ERR_INVALID_STATE)
       ELSE /\ UNCHANGED connected
            /\ IF idcode = ZERO_WORD \/ idcode = ERASED_WORD
               THEN MeReturn(ESP_ERR_INVALID_STATE)
               ELSE MeGoto("powerup")
    /\ UNCHANGED notMe

\* Step 1: swd_dp_write(DP_CTRL_STAT, 0x50000000)
MePowerUp(ret) ==
    /\ mePc = "powerup"
    /\ ret \in AccessRets
    /\ IF ret # ESP_OK THEN MeReturn(ret) ELSE MeGoto("idr")
    /\ UNCHANGED <<connected, elapsed_ms, polls, ctrlApWrites, idrValue, verifyReads>>
    /\ UNCHANGED notMe

\* Step 2: select AP#1 bank 15, read the IDR, check it
MeReadIdr(selRet, ret, value) ==
    /\ mePc = "idr"
    /\ selRet \in AccessRets /\ ret \in AccessRets /\ value \in IdrValues
    /\ IF selRet # ESP_OK
       THEN MeReturn(selRet) /\ UNCHANGED idrValue
       ELSE IF ret # ESP_OK
            THEN MeReturn(ret) /\ UNCHANGED idrValue
            ELSE /\ idrValue' = value
                 /\ IF ~IdrMatches(value)
                    THEN MeReturn(ESP_ERR_NOT_FOUND)
                    ELSE MeGoto("bank0")
    /\ UNCHANGED <<connected, elapsed_ms, polls, ctrlApWrites, verifyReads>>
    /\ UNCHANGED notMe

\* Steps 3 and 4: select AP#1 bank 0; read APPROTECTSTATUS, which is only
\* logged
MeSelectBank0(selRet) ==
    /\ mePc = "bank0"
    /\ selRet \in AccessRets
    /\ IF selRet # ESP_OK THEN MeReturn(selRet) ELSE MeGoto("trigger")
    /\ UNCHANGED <<connected, elapsed_ms, polls, ctrlApWrites, idrValue, verifyReads>>
    /\ UNCHANGED notMe

\* Step 5: swd_ap_write(CTRL_AP_ERASEALL, 1), then the RDBUFF read whose
\* result is dropped; elapsed_ms = 0 enters the poll loop
MeTrigger(ret) ==
    /\ mePc = "trigger"
    /\ ret \in AccessRets
    /\ ctrlApWrites' = ctrlApWrites \cup {<<CTRL_AP_ERASEALL, 1>>}
    /\ IF ret # ESP_OK THEN MeReturn(ret) ELSE MeGoto("poll")
    /\ UNCHANGED <<connected, elapsed_ms, polls, idrValue, verifyReads>>
    /\ UNCHANGED notMe

\* Step 6, one iteration of while (elapsed_ms < timeout_ms): read
\* ERASEALLSTATUS. A failed read re-selects the AP and continues; ready
\* leaves the loop; busy adds 100 ms, and the loop ends without complete
\* when the budget is used up.
MePoll(ret, value) ==
    /\ mePc = "poll"
    /\ elapsed_ms < TIMEOUT_MS
    /\ ret \in AccessRets /\ value \in StatusValues
    /\ ret # ESP_OK => polls - elapsed_ms \div POLL_MS < MaxFailedPolls
    /\ polls' = polls + 1
    /\ IF ret # ESP_OK
       THEN MeGoto("poll") /\ UNCHANGED elapsed_ms
       ELSE IF value = ZERO_WORD
            THEN MeGoto("reset") /\ UNCHANGED elapsed_ms
            ELSE /\ elapsed_ms' = elapsed_ms + POLL_MS
                 /\ IF elapsed_ms' < TIMEOUT_MS
                    THEN MeGoto("poll")
                    ELSE MeReturn(ESP_ERR_TIMEOUT)
    /\ UNCHANGED <<connected, ctrlApWrites, idrValue, verifyReads>>
    /\ UNCHANGED notMe

\* Steps 7 to 9: the reset sequence and the switch back to the MEM-AP, whose
\* results are dropped; swd_disconnect; swd_connect
MeReconnect(ret) ==
    /\ mePc = "reset"
    /\ ret \in ConnectRets
    /\ ctrlApWrites' = ctrlApWrites \cup
            {<<CTRL_AP_RESET, 1>>, <<CTRL_AP_RESET, 0>>, <<CTRL_AP_ERASEALL, 0>>}
    /\ connected' = (ret = ESP_OK)
    /\ IF ret # ESP_OK THEN MeReturn(ret) ELSE MeGoto("verify")
    /\ UNCHANGED <<elapsed_ms, polls, idrValue, verifyReads>>
    /\ UNCHANGED notMe

\* Step 10: swd_mem_read32(0x00000000) and swd_mem_read32(0x10001208), both
\* only logged; return ESP_OK
MeVerify(r0, r1) ==
    /\ mePc = "verify"
    /\ r0 \in VerifyOutcomes /\ r1 \in VerifyOutcomes
    /\ verifyReads' = <<r0, r1>>
    /\ MeReturn(ESP_OK)
    /\ UNCHANGED <<connected, elapsed_ms, polls, ctrlApWrites, idrValue>>
    /\ UNCHANGED notMe

MeInit ==
    /\ connected = FALSE
    /\ mePc = "idle"
    /\ meRet = "none"
    /\ elapsed_ms = 0
    /\ polls = 0
    /\ ctrlApWrites = {}
    /\ idrValue = "none"
    /\ verifyReads = <<>>

MeNext ==
    \/ SwdInit
    \/ \E ret \in ConnectRets : SwdConnect(ret)
    \/ \E alive \in BOOLEAN, idcode \in IdcodeValues : MeEntry(alive, idcode)
    \/ \E ret \in AccessRets : MePowerUp(ret)
    \/ \E selRet, ret \in AccessRets, value \in IdrValues : MeReadIdr(selRet, ret, value)
    \/ \E selRet \in AccessRets : MeSelectBank0(selRet)
    \/ \E ret \in AccessRets : MeTrigger(ret)
    \/ \E ret \in AccessRets, value \in StatusValues : MePoll(ret, value)
    \/ \E ret \in ConnectRets : MeReconnect(ret)
    \/ \E r0, r1 \in VerifyOutcomes : MeVerify(r0, r1)

-----------------------------------------------------------------------------
(* Claims about the mass erase *)

\* The most polls a 15 s budget at 100 ms per poll allows
POLL_BUDGET == TIMEOUT_MS \div POLL_MS

\* C5: after the erase trigger has been written the status poll makes at most
\* 150 reads of the status register, whatever the target answers, failing
\* reads included.
C5_PollsBounded == polls <= POLL_BUDGET

\* The call has read an identification register that is not the vendor's
IdrMismatch ==
    /\ idrValue # "none"
    /\ (idrValue[1] % 4096 # 648 \/ idrValue[2] # 0)

\* C6: a call that read a non-matching identification register returns
\* ESP_ERR_NOT_FOUND and has made no write to the erase-trigger register, and
\* no other failure of the call returns ESP_ERR_NOT_FOUND.
C6_UnexpectedDevice ==
    /\ IdrMismatch =>
         /\ meRet = ESP_ERR_NOT_FOUND
         /\ \A w \in ctrlApWrites : w[1] # CTRL_AP_ERASEALL
    /\ meRet = ESP_ERR_NOT_FOUND => IdrMismatch

C6_Witness ==
    /\ mePc = "done" /\ meRet = ESP_ERR_NOT_FOUND
    /\ idrValue = <<9335, 17>> /\ ctrlApWrites = {}

\* C7: the mass erase returns ESP_OK only if both verification reads
\* succeeded and both read 0xFFFFFFFF.
C7_SuccessOnlyIfVerified ==
    (mePc = "done" /\ meRet = ESP_OK)
        => /\ Len(verifyReads) = 2
           /\ \A i \in 1..2 : verifyReads[i] = [ret |-> ESP_OK, val |-> ERASED_WORD]

-----------------------------------------------------------------------------
(* Block-write machine: swd_mem_write_block32 (swd_mem.c) against a MEM-AP *)
(* with address auto-increment. Input word k is written as the number k.   *)

AUTO_INC_SIZE == 1024

\* The longest block written
MaxWords == 512

\* addr of a call: 16 words before a 1 KB boundary, the start of flash, one
\* word before a boundary, on a boundary, in RAM before a boundary, unaligned
BlockAddrs == {960, 0, 1020, 1024, 536871888, 962}

BlockCounts == {0, 1, 16, 17, 256, MaxWords}

\* Mutant of WordsInPage: the chunk ignores the auto-increment boundary
WordsInPage_IgnoreBoundary(addr, count) == count

\* words_in_page = (auto_inc_size - (addr & (auto_inc_size - 1))) / 4, capped
\* by count
WordsInPage(addr, count) ==
    Min((AUTO_INC_SIZE - (addr % AUTO_INC_SIZE)) \div 4, count)

\* TAR after a 32-bit access with auto-increment: the low 10 bits increment;
\* whether the carry reaches the upper bits is the MEM-AP's choice
AutoIncrement(t, wraps) ==
    IF wraps THEN (t \div AUTO_INC_SIZE) * AUTO_INC_SIZE + ((t + 4) % AUTO_INC_SIZE)
    ELSE t + 4

BlkReturn(ret) == blkPc' = "done" /\ blkRet' = ret

BlkGoto(pc) == blkPc' = pc /\ blkRet' = "pending"

\* Entry: the argument checks
BlockCall(addr, hasData, count, wraps) ==
    /\ blkPc = "idle"
    /\ addr \in BlockAddrs /\ count \in BlockCounts
    /\ blkAddr' = addr /\ blkCount' = count /\ blkData' = 0
    /\ blkStart' = addr /\ blkTotal' = count
    /\ blkI' = 0 /\ words_in_page' = 0
    /\ apWraps' = wraps
    /\ landed' = {} /\ tarWrites' = <<>>
    /\ IF ~hasData \/ count = 0 \/ addr % 4 # 0
       THEN BlkReturn(ESP_ERR_INVALID_ARG)
       ELSE BlkGoto("csw")
    /\ UNCHANGED tar
    /\ UNCHANGED notBlk

\* swd_ap_write(AP_CSW, csw_value); count > 0 enters the loop
BlockCsw(ret) ==
    /\ blkPc = "csw"
    /\ ret \in AccessRets
    /\ IF ret # ESP_OK THEN BlkReturn(ret) ELSE BlkGoto("tar")
    /\ UNCHANGED <<blkAddr, blkCount, blkData, blkI, words_in_page, tar, apWraps,
                   landed, tarWrites, blkStart, blkTotal>>
    /\ UNCHANGED notBlk

\* Top of while (count > 0): the chunk length, then swd_ap_write(AP_TAR, addr)
BlockTar(ret) ==
    /\ blkPc = "tar"
    /\ blkCount > 0
    /\ ret \in AccessRets
    /\ words_in_page' = WordsInPage(blkAddr, blkCount)
    /\ tarWrites' = Append(tarWrites, blkAddr)
    /\ blkI' = 0
    /\ IF ret # ESP_OK
       THEN BlkReturn(ret) /\ UNCHANGED tar
       ELSE BlkGoto("drw") /\ tar' = blkAddr
    /\ UNCHANGED <<blkAddr, blkCount, blkData, apWraps, landed, blkStart, blkTotal>>
    /\ UNCHANGED notBlk

\* One iteration of the inner loop: swd_ap_write(AP_DRW, data[i]); the MEM-AP
\* writes the word at TAR and increments TAR
BlockDrw(ret) ==
    /\ blkPc = "drw"
    /\ blkI < words_in_page
    /\ ret \in AccessRets
    /\ IF ret # ESP_OK
       THEN BlkReturn(ret) /\ UNCHANGED <<landed, tar, blkI>>
       ELSE /\ landed' = landed \cup {<<tar, blkData + blkI>>}
            /\ tar' = AutoIncrement(tar, apWraps)
            /\ blkI' = blkI + 1
            /\ BlkGoto(IF blkI' < words_in_page THEN "drw" ELSE "rdbuff")
    /\ UNCHANGED <<blkAddr, blkCount, blkData, words_in_page, apWraps, tarWrites,
                   blkStart, blkTotal>>
    /\ UNCHANGED notBlk

\* swd_dp_read(DP_RDBUFF), then the move to the next chunk
BlockRdbuff(ret) ==
    /\ blkPc = "rdbuff"
    /\ ret \in AccessRets
    /\ IF ret # ESP_OK
       THEN BlkReturn(ret) /\ UNCHANGED <<blkAddr, blkData, blkCount>>
       ELSE /\ blkAddr' = blkAddr + words_in_page * 4
            /\ blkData' = blkData + words_in_page
            /\ blkCount' = blkCount - words_in_page
            /\ IF blkCount' > 0 THEN BlkGoto("tar") ELSE BlkReturn(ESP_OK)
    /\ UNCHANGED <<blkI, words_in_page, tar, apWraps, landed, tarWrites, blkStart,
                   blkTotal>>
    /\ UNCHANGED notBlk

BlkInit ==
    /\ blkPc = "idle"
    /\ blkRet = "none"
    /\ blkAddr = 0 /\ blkCount = 0 /\ blkData = 0 /\ blkI = 0
    /\ words_in_page = 0
    /\ tar = 0
    /\ apWraps = FALSE
    /\ landed = {}
    /\ tarWrites = <<>>
    /\ blkStart = 0 /\ blkTotal = 0

BlkNext ==
    \/ \E addr \in BlockAddrs, hasData \in BOOLEAN, count \in BlockCounts, wraps \in BOOLEAN :
            BlockCall(addr, hasData, count, wraps)
    \/ \E ret \in AccessRets : BlockCsw(ret)
    \/ \E ret \in AccessRets : BlockTar(ret)
    \/ \E ret \in AccessRets : BlockDrw(ret)
    \/ \E ret \in AccessRets : BlockRdbuff(ret)

-----------------------------------------------------------------------------
(* Claims about the block write *)

\* The addresses a range must set TAR to: its start, then every 1 KB
\* boundary inside it
BoundariesIn(start, total) ==
    LET first == start \div 1024
        last == (start + 4 * total - 1) \div 1024
    IN [j \in 1..(last - first + 1) |-> IF j = 1 THEN start ELSE (first + j - 1) * 1024]

\* C8: every word written to memory is input word k at address start + 4k,
\* and a call that returns ESP_OK has written every word of the input and has
\* set TAR at the start and at every 1 KB boundary the range crosses, whether
\* the MEM-AP wraps at the boundary or not.
C8_WordsLandInPlace ==
    /\ \A w \in landed : w[2] \in 0..(blkTotal - 1) /\ w[1] = blkStart + 4 * w[2]
    /\ (blkPc = "done" /\ blkRet = ESP_OK) =>
         /\ \A k \in 0..(blkTotal - 1) : <<blkStart + 4 * k, k>> \in landed
         /\ tarWrites = BoundariesIn(blkStart, blkTotal)

C8_Witness ==
    /\ blkPc = "done" /\ blkRet = ESP_OK
    /\ blkStart = 960 /\ blkTotal = MaxWords /\ apWraps
    /\ <<960 + 4 * (MaxWords - 1), MaxWords - 1>> \in landed
    /\ Len(tarWrites) = 3

-----------------------------------------------------------------------------
(* NVMC machine: swd_flash_erase_page, swd_flash_erase_all,                *)
(* swd_flash_write_word and swd_flash_write_buffer (swd_flash.c) against   *)
(* the target's NVMC. A memory access is its outcome at the target and the *)
(* value its caller gets back.                                             *)

NVMC_CONFIG_REN == 0
NVMC_CONFIG_WEN == 1
NVMC_CONFIG_EEN == 2

ESP_ERR_NO_MEM == "ESP_ERR_NO_MEM"

ERASE_TIMEOUT_MS == 400
ERASE_SETTLE_MS == 90
ERASE_POLL_MS == 10
FINAL_WAIT == 100
MAX_WORDS == 1024

\* swd_mem_write32 seen from both ends:
\*   ok       the word is written, ESP_OK
\*   ignored  the access completes, the target does not take the value, ESP_OK
\*   late     the word is written, the closing RDBUFF read fails
\*   lost     the TAR or DRW write fails, nothing is written
WriteOutcomes == {"ok", "ignored", "late", "lost"}

WriteRet(o) == IF o \in {"ok", "ignored"} THEN ESP_OK ELSE ESP_FAIL

Reaches(o) == o \in {"ok", "late"}

\* What wait_nvmc_ready returns
WaitReadyRets == {ESP_OK, ESP_FAIL, ESP_ERR_TIMEOUT}

\* A read of NVMC_READY: failed, bit 0 set, bit 0 clear
ReadyReads == {"fail", "ready", "busy"}

\* A verification sample: 0xFFFFFFFF at once, on the second read only, not at
\* all; the first or the second read fails
SampleOutcomes == {"erased", "erased_on_reread", "dirty", "fail", "fail_on_reread"}

ErasePageAddrs == {4096, 4660, UICR_PAGE, NRF52_FLASH_SIZE}

WriteWordAddrs == {4096, 4098}

WriteBufferAddrs == {4096, 4097, 4099}

WriteBufferSizes == {0, 1, 3, 4, 6, 4096, 8200}

LogEntry(mode, o) == [mode |-> mode, outcome |-> o]

\* swd_mem_write32(NVMC_CONFIG, mode) with outcome o
WriteConfig(cfg, log, mode, o) ==
    [ret |-> WriteRet(o),
     config |-> IF Reaches(o) THEN mode ELSE cfg,
     log |-> Append(log, LogEntry(mode, o))]

\* Mutant of SetNvmcConfig: no read back, the result of the write is returned
SetNvmcConfig_NoReadBack(cfg, log, mode, o, rdOk) == WriteConfig(cfg, log, mode, o)

\* set_nvmc_config(mode): the write, then the read back (rdOk: it succeeds)
\* and the comparison
SetNvmcConfig(cfg, log, mode, o, rdOk) ==
    LET w == WriteConfig(cfg, log, mode, o)
    IN IF w.ret # ESP_OK THEN w
       ELSE IF ~rdOk THEN [w EXCEPT !.ret = ESP_FAIL]
       ELSE IF w.config % 4 # mode THEN [w EXCEPT !.ret = ESP_FAIL]
       ELSE w

NvReturn(ret) == nvPc' = "done" /\ nvRet' = ret

NvGoto(pc) == nvPc' = pc /\ nvRet' = "pending"

\* What every entry resets
NvEnter(op) ==
    /\ nvPc = "idle"
    /\ nvOp' = op
    /\ nvWritten' = 0
    /\ nvElapsed' = 0
    /\ nvSample' = 0
    /\ memWrites' = <<>>

\* cleanup: of swd_flash_erase_page: set_nvmc_config(NVMC_CONFIG_REN), then
\* return ret
ErasePageCleanup(ret, co, crd) ==
    LET c == SetNvmcConfig(nvmcConfig, configLog, NVMC_CONFIG_REN, co, crd)
    IN nvmcConfig' = c.config /\ configLog' = c.log /\ NvReturn(ret)

\* swd_flash_erase_page: the range check, the alignment, wait_nvmc_ready(500)
ErasePageEntry(addr, w) ==
    /\ NvEnter("erase_page")
    /\ addr \in ErasePageAddrs /\ w \in WaitReadyRets
    /\ configLog' = <<>>
    /\ nvSize' = 0
    /\ IF addr >= NRF52_FLASH_SIZE /\ addr # UICR_PAGE
       THEN nvAddr' = addr /\ NvReturn(ESP_ERR_INVALID_ARG)
       ELSE /\ nvAddr' = PageOf(addr)
            /\ IF w # ESP_OK THEN NvReturn(w) ELSE NvGoto("ep_enable")
    /\ UNCHANGED nvmcConfig
    /\ UNCHANGED notNv

\* set_nvmc_config(NVMC_CONFIG_EEN); a failure returns at once
ErasePageEnable(o, rdOk) ==
    /\ nvPc = "ep_enable"
    /\ o \in WriteOutcomes
    /\ LET c == SetNvmcConfig(nvmcConfig, configLog, NVMC_CONFIG_EEN, o, rdOk)
       IN /\ nvmcConfig' = c.config /\ configLog' = c.log
          /\ IF c.ret # ESP_OK THEN NvReturn(c.ret) ELSE NvGoto("ep_check")
    /\ UNCHANGED <<nvOp, nvAddr, nvSize, nvWritten, nvElapsed, nvSample, memWrites>>
    /\ UNCHANGED notNv

\* The second read of NVMC_CONFIG; a failure restores read-only mode and
\* returns ESP_FAIL
ErasePageCheck(rdOk, co, crd) ==
    /\ nvPc = "ep_check"
    /\ co \in WriteOutcomes
    /\ IF ~rdOk \/ nvmcConfig % 4 # NVMC_CONFIG_EEN
       THEN ErasePageCleanup(ESP_FAIL, co, crd)
       ELSE NvGoto("ep_trigger") /\ UNCHANGED <<nvmcConfig, configLog>>
    /\ UNCHANGED <<nvOp, nvAddr, nvSize, nvWritten, nvElapsed, nvSample, memWrites>>
    /\ UNCHANGED notNv

\* swd_mem_write32(NVMC_ERASEPAGE, addr), then the 90 ms settle time
ErasePageTrigger(o, co, crd) ==
    /\ nvPc = "ep_trigger"
    /\ o \in WriteOutcomes /\ co \in WriteOutcomes
    /\ IF WriteRet(o) # ESP_OK
       THEN ErasePageCleanup(WriteRet(o), co, crd) /\ UNCHANGED nvElapsed
       ELSE /\ nvElapsed' = ERASE_SETTLE_MS
            /\ NvGoto("ep_poll")
            /\ UNCHANGED <<nvmcConfig, configLog>>
    /\ UNCHANGED <<nvOp, nvAddr, nvSize, nvWritten, nvSample, memWrites>>
    /\ UNCHANGED notNv

\* One iteration of while (elapsed_ms < timeout_ms), and the timeout check
\* after the loop
ErasePagePoll(rd, co, crd) ==
    /\ nvPc = "ep_poll"
    /\ nvElapsed < ERASE_TIMEOUT_MS
    /\ rd \in ReadyReads /\ co \in WriteOutcomes
    /\ CASE rd = "fail" -> ErasePageCleanup(ESP_FAIL, co, crd) /\ UNCHANGED nvElapsed
         [] rd = "ready" ->
                /\ NvGoto("ep_restore")
                /\ UNCHANGED <<nvElapsed, nvmcConfig, configLog>>
         [] OTHER ->
                /\ nvElapsed' = nvElapsed + ERASE_POLL_MS
                /\ IF nvElapsed' >= ERASE_TIMEOUT_MS
                   THEN ErasePageCleanup(ESP_ERR_TIMEOUT, co, crd)
                   ELSE NvGoto("ep_poll") /\ UNCHANGED <<nvmcConfig, configLog>>
    /\ UNCHANGED <<nvOp, nvAddr, nvSize, nvWritten, nvSample, memWrites>>
    /\ UNCHANGED notNv

\* set_nvmc_config(NVMC_CONFIG_REN) before the verification; a failure goes
\* to cleanup, which tries once more
ErasePageRestore(o, rdOk, co, crd) ==
    /\ nvPc = "ep_restore"
    /\ o \in WriteOutcomes /\ co \in WriteOutcomes
    /\ LET c == SetNvmcConfig(nvmcConfig, configLog, NVMC_CONFIG_REN, o, rdOk)
           c2 == SetNvmcConfig(c.config, c.log, NVMC_CONFIG_REN, co, crd)
       IN IF c.ret # ESP_OK
          THEN nvmcConfig' = c2.config /\ configLog' = c2.log /\ NvReturn(c.ret)
          ELSE nvmcConfig' = c.config /\ configLog' = c.log /\ NvGoto("ep_verify")
    /\ nvSample' = 0
    /\ UNCHANGED <<nvOp, nvAddr, nvSize, nvWritten, nvElapsed, memWrites>>
    /\ UNCHANGED notNv

\* One sample of the verification loop over the offsets 0, 4, 8, page - 4
ErasePageVerify(s, co, crd) ==
    /\ nvPc = "ep_verify"
    /\ nvSample < 4
    /\ s \in SampleOutcomes /\ co \in WriteOutcomes
    /\ IF s \in {"erased", "erased_on_reread"}
       THEN /\ nvSample' = nvSample + 1
            /\ IF nvSample' < 4 THEN NvGoto("ep_verify") ELSE NvReturn(ESP_OK)
            /\ UNCHANGED <<nvmcConfig, configLog>>
       ELSE ErasePageCleanup(ESP_FAIL, co, crd) /\ UNCHANGED nvSample
    /\ UNCHANGED <<nvOp, nvAddr, nvSize, nvWritten, nvElapsed, memWrites>>
    /\ UNCHANGED notNv

\* swd_flash_erase_all: wait_nvmc_ready(100)
EraseAllEntry(w) ==
    /\ NvEnter("erase_all")
    /\ w \in WaitReadyRets
    /\ configLog' = <<>>
    /\ nvAddr' = 0 /\ nvSize' = 0
    /\ IF w # ESP_OK THEN NvReturn(w) ELSE NvGoto("ea_enable")
    /\ UNCHANGED nvmcConfig
    /\ UNCHANGED notNv

\* set_nvmc_config(NVMC_CONFIG_EEN); a failure returns at once
EraseAllEnable(o, rdOk) ==
    /\ nvPc = "ea_enable"
    /\ o \in WriteOutcomes
    /\ LET c == SetNvmcConfig(nvmcConfig, configLog, NVMC_CONFIG_EEN, o, rdOk)
       IN /\ nvmcConfig' = c.config /\ configLog' = c.log
          /\ IF c.ret # ESP_OK THEN NvReturn(c.ret) ELSE NvGoto("ea_trigger")
    /\ UNCHANGED <<nvOp, nvAddr, nvSize, nvWritten, nvElapsed, nvSample, memWrites>>
    /\ UNCHANGED notNv

\* swd_mem_write32(NVMC_ERASEALL, 1), wait_nvmc_ready(500), and
\* set_nvmc_config(NVMC_CONFIG_REN) on both ways out
EraseAllTrigger(o, w, co, crd) ==
    /\ nvPc = "ea_trigger"
    /\ o \in WriteOutcomes /\ w \in WaitReadyRets /\ co \in WriteOutcomes
    /\ LET c == SetNvmcConfig(nvmcConfig, configLog, NVMC_CONFIG_REN, co, crd)
       IN /\ nvmcConfig' = c.config /\ configLog' = c.log
          /\ IF WriteRet(o) # ESP_OK THEN NvReturn(WriteRet(o)) ELSE NvReturn(w)
    /\ UNCHANGED <<nvOp, nvAddr, nvSize, nvWritten, nvElapsed, nvSample, memWrites>>
    /\ UNCHANGED notNv

\* swd_flash_write_word: the alignment check and set_nvmc_config(WEN); a
\* failure returns at once
WriteWordEntry(addr, o, rdOk) ==
    /\ NvEnter("write_word")
    /\ addr \in WriteWordAddrs /\ o \in WriteOutcomes
    /\ nvAddr' = addr /\ nvSize' = 4
    /\ IF addr % 4 # 0
       THEN NvReturn(ESP_ERR_INVALID_ARG) /\ configLog' = <<>> /\ UNCHANGED nvmcConfig
       ELSE LET c == SetNvmcConfig(nvmcConfig, <<>>, NVMC_CONFIG_WEN, o, rdOk)
            IN /\ nvmcConfig' = c.config /\ configLog' = c.log
               /\ IF c.ret # ESP_OK THEN NvReturn(c.ret) ELSE NvGoto("ww_write")
    /\ UNCHANGED notNv

\* swd_mem_write32(addr, data), set_nvmc_config(NVMC_CONFIG_REN), return ret
WriteWordWrite(o, co, crd) ==
    /\ nvPc = "ww_write"
    /\ o \in WriteOutcomes /\ co \in WriteOutcomes
    /\ memWrites' = IF Reaches(o) THEN Append(memWrites, <<nvAddr, 4>>) ELSE memWrites
    /\ nvWritten' = IF WriteRet(o) = ESP_OK THEN 4 ELSE 0
    /\ LET c == SetNvmcConfig(nvmcConfig, configLog, NVMC_CONFIG_REN, co, crd)
       IN nvmcConfig' = c.config /\ configLog' = c.log
    /\ NvReturn(WriteRet(o))
    /\ UNCHANGED <<nvOp, nvAddr, nvSize, nvElapsed, nvSample>>
    /\ UNCHANGED notNv

\* cleanup: of swd_flash_write_buffer: swd_mem_write32(NVMC_CONFIG, REN), then
\* return ret
WriteBufferCleanup(ret, co) ==
    LET c == WriteConfig(nvmcConfig, configLog, NVMC_CONFIG_REN, co)
    IN nvmcConfig' = c.config /\ configLog' = c.log /\ NvReturn(ret)

\* swd_flash_write_buffer: the argument check and
\* swd_mem_write32(NVMC_CONFIG, WEN); a failure returns at once
WriteBufferEntry(addr, hasData, size, o) ==
    /\ NvEnter("write_buffer")
    /\ addr \in WriteBufferAddrs /\ size \in WriteBufferSizes /\ o \in WriteOutcomes
    /\ nvAddr' = addr /\ nvSize' = size
    /\ IF ~hasData \/ size = 0
       THEN NvReturn(ESP_ERR_INVALID_ARG) /\ configLog' = <<>> /\ UNCHANGED nvmcConfig
       ELSE LET c == WriteConfig(nvmcConfig, <<>>, NVMC_CONFIG_WEN, o)
            IN /\ nvmcConfig' = c.config /\ configLog' = c.log
               /\ IF c.ret # ESP_OK THEN NvReturn(c.ret) ELSE NvGoto("wb_head")
    /\ UNCHANGED notNv

\* The unaligned start: read the word, splice, write it back
WriteBufferHead(rdOk, o, co) ==
    /\ nvPc = "wb_head"
    /\ o \in WriteOutcomes /\ co \in WriteOutcomes
    /\ IF nvAddr % 4 = 0
       THEN /\ NvGoto("wb_alloc")
            /\ UNCHANGED <<nvmcConfig, configLog, nvAddr, nvSize, nvWritten, memWrites>>
       ELSE LET aligned_addr == nvAddr - (nvAddr % 4)
                bytes_to_copy == Min(4 - (nvAddr % 4), nvSize)
            IN IF ~rdOk
               THEN /\ WriteBufferCleanup(ESP_FAIL, co)
                    /\ UNCHANGED <<nvAddr, nvSize, nvWritten, memWrites>>
               ELSE /\ memWrites' = IF Reaches(o)
                                    THEN Append(memWrites, <<aligned_addr, 4>>)
                                    ELSE memWrites
                    /\ IF WriteRet(o) # ESP_OK
                       THEN /\ WriteBufferCleanup(WriteRet(o), co)
                            /\ UNCHANGED <<nvAddr, nvSize, nvWritten>>
                       ELSE /\ nvAddr' = nvAddr + bytes_to_copy
                            /\ nvWritten' = nvWritten + bytes_to_copy
                            /\ nvSize' = nvSize - bytes_to_copy
                            /\ NvGoto("wb_alloc")
                            /\ UNCHANGED <<nvmcConfig, configLog>>
    /\ UNCHANGED <<nvOp, nvElapsed, nvSample>>
    /\ UNCHANGED notNv

\* malloc of the word buffer
WriteBufferAlloc(allocOk, co) ==
    /\ nvPc = "wb_alloc"
    /\ co \in WriteOutcomes
    /\ IF ~allocOk
       THEN WriteBufferCleanup(ESP_ERR_NO_MEM, co)
       ELSE /\ NvGoto(IF nvSize >= 4 THEN "wb_chunk" ELSE "wb_tail")
            /\ UNCHANGED <<nvmcConfig, configLog>>
    /\ UNCHANGED <<nvOp, nvAddr, nvSize, nvWritten, nvElapsed, nvSample, memWrites>>
    /\ UNCHANGED notNv

\* One iteration of while (size >= 4): swd_mem_write_block32 of up to 1024
\* words, which returns ret
WriteBufferChunk(ret, co) ==
    /\ nvPc = "wb_chunk"
    /\ nvSize >= 4
    /\ ret \in AccessRets /\ co \in WriteOutcomes
    /\ LET words_in_chunk == Min(nvSize \div 4, MAX_WORDS)
           bytes_written == words_in_chunk * 4
       IN IF ret # ESP_OK
          THEN /\ WriteBufferCleanup(ret, co)
               /\ UNCHANGED <<nvAddr, nvSize, nvWritten, memWrites>>
          ELSE /\ memWrites' = Append(memWrites, <<nvAddr, bytes_written>>)
               /\ nvAddr' = nvAddr + bytes_written
               /\ nvWritten' = nvWritten + bytes_written
               /\ nvSize' = nvSize - bytes_written
               /\ NvGoto(IF nvSize' >= 4 THEN "wb_chunk" ELSE "wb_tail")
               /\ UNCHANGED <<nvmcConfig, configLog>>
    /\ UNCHANGED <<nvOp, nvElapsed, nvSample>>
    /\ UNCHANGED notNv

\* The bytes left over, padded with 0xFF to a word; then timeout = 100
WriteBufferTail(o, co) ==
    /\ nvPc = "wb_tail"
    /\ o \in WriteOutcomes /\ co \in WriteOutcomes
    /\ IF nvSize = 0
       THEN /\ NvGoto("wb_wait") /\ nvElapsed' = FINAL_WAIT
            /\ UNCHANGED <<nvmcConfig, configLog, nvWritten, memWrites>>
       ELSE /\ memWrites' = IF Reaches(o) THEN Append(memWrites, <<nvAddr, 4>>)
                            ELSE memWrites
            /\ IF WriteRet(o) # ESP_OK
               THEN WriteBufferCleanup(WriteRet(o), co) /\ UNCHANGED <<nvWritten, nvElapsed>>
               ELSE /\ nvWritten' = nvWritten + nvSize
                    /\ NvGoto("wb_wait") /\ nvElapsed' = FINAL_WAIT
                    /\ UNCHANGED <<nvmcConfig, configLog>>
    /\ UNCHANGED <<nvOp, nvAddr, nvSize, nvSample>>
    /\ UNCHANGED notNv

\* One test of while (timeout--) and its body: a failed read leaves with its
\* error, a set ready bit or a used-up count leaves with ESP_OK; the way out
\* runs into cleanup
WriteBufferWait(rd, co) ==
    /\ nvPc = "wb_wait"
    /\ rd \in ReadyReads /\ co \in WriteOutcomes
    /\ IF nvElapsed = 0
       THEN WriteBufferCleanup(ESP_OK, co) /\ UNCHANGED nvElapsed
       ELSE /\ nvElapsed' = nvElapsed - 1
            /\ CASE rd = "fail" -> WriteBufferCleanup(ESP_FAIL, co)
                 [] rd = "ready" -> WriteBufferCleanup(ESP_OK, co)
                 [] OTHER -> NvGoto("wb_wait") /\ UNCHANGED <<nvmcConfig, configLog>>
    /\ UNCHANGED <<nvOp, nvAddr, nvSize, nvWritten, nvSample, memWrites>>
    /\ UNCHANGED notNv

\* The caller takes the return value and goes on; what stays is the
\* target's NVMC CONFIG register
NvCallerResumes ==
    /\ nvPc = "done"
    /\ nvPc' = "idle"
    /\ nvOp' = "none" /\ nvRet' = "none"
    /\ configLog' = <<>>
    /\ nvAddr' = 0 /\ nvSize' = 0 /\ nvWritten' = 0
    /\ nvElapsed' = 0
    /\ nvSample' = 0
    /\ memWrites' = <<>>
    /\ UNCHANGED nvmcConfig
    /\ UNCHANGED notNv

NvInit ==
    /\ nvPc = "idle"
    /\ nvOp = "none"
    /\ nvRet = "none"
    /\ nvmcConfig = NVMC_CONFIG_REN
    /\ configLog = <<>>
    /\ nvAddr = 0 /\ nvSize = 0 /\ nvWritten = 0
    /\ nvElapsed = 0
    /\ nvSample = 0
    /\ memWrites = <<>>

NvNext ==
    \/ \E addr \in ErasePageAddrs, w \in WaitReadyRets : ErasePageEntry(addr, w)
    \/ \E o \in WriteOutcomes, rdOk \in BOOLEAN : ErasePageEnable(o, rdOk)
    \/ \E rdOk \in BOOLEAN, co \in WriteOutcomes, crd \in BOOLEAN :
            ErasePageCheck(rdOk, co, crd)
    \/ \E o, co \in WriteOutcomes, crd \in BOOLEAN : ErasePageTrigger(o, co, crd)
    \/ \E rd \in ReadyReads, co \in WriteOutcomes, crd \in BOOLEAN :
            ErasePagePoll(rd, co, crd)
    \/ \E o, co \in WriteOutcomes, rdOk, crd \in BOOLEAN :
            ErasePageRestore(o, rdOk, co, crd)
    \/ \E s \in SampleOutcomes, co \in WriteOutcomes, crd \in BOOLEAN :
            ErasePageVerify(s, co, crd)
    \/ \E w \in WaitReadyRets : EraseAllEntry(w)
    \/ \E o \in WriteOutcomes, rdOk \in BOOLEAN : EraseAllEnable(o, rdOk)
    \/ \E o, co \in WriteOutcomes, w \in WaitReadyRets, crd \in BOOLEAN :
            EraseAllTrigger(o, w, co, crd)
    \/ \E addr \in WriteWordAddrs, o \in WriteOutcomes, rdOk \in BOOLEAN :
            WriteWordEntry(addr, o, rdOk)
    \/ \E o, co \in WriteOutcomes, crd \in BOOLEAN : WriteWordWrite(o, co, crd)
    \/ \E addr \in WriteBufferAddrs, hasData \in BOOLEAN, size \in WriteBufferSizes,
          o \in WriteOutcomes : WriteBufferEntry(addr, hasData, size, o)
    \/ \E rdOk \in BOOLEAN, o, co \in WriteOutcomes : WriteBufferHead(rdOk, o, co)
    \/ \E allocOk \in BOOLEAN, co \in WriteOutcomes : WriteBufferAlloc(allocOk, co)
    \/ \E ret \in AccessRets, co \in WriteOutcomes : WriteBufferChunk(ret, co)
    \/ \E o, co \in WriteOutcomes : WriteBufferTail(o, co)
    \/ \E rd \in ReadyReads, co \in WriteOutcomes : WriteBufferWait(rd, co)
    \/ NvCallerResumes

-----------------------------------------------------------------------------
(* Claims about the NVMC operations *)

\* Entry i of the log wrote erase-enable or write-enable, and the write
\* completed
ModeEnabledAt(i) ==
    /\ configLog[i].mode \in {NVMC_CONFIG_EEN, NVMC_CONFIG_WEN}
    /\ configLog[i].outcome = "ok"

\* C9: when page erase, chip erase, word write or buffered write returns a
\* failure after it wrote erase-enable or write-enable to NVMC_CONFIG, it has
\* attempted a write of read-only mode to NVMC_CONFIG after that write.
C9_ReadOnlyRestored ==
    (nvPc = "done" /\ nvRet # ESP_OK) =>
        \A i \in DOMAIN configLog :
            ModeEnabledAt(i) =>
                \E j \in DOMAIN configLog : j > i /\ configLog[j].mode = NVMC_CONFIG_REN

\* The step uses up the budget of a poll loop without ready being seen: the
\* counter of the final wait of swd_flash_write_buffer is at 0, or the
\* page-erase poll reaches its timeout
PollBudgetRunsOut ==
    \/ nvPc = "wb_wait" /\ nvElapsed = 0
    \/ nvPc = "ep_poll" /\ nvElapsed' >= ERASE_TIMEOUT_MS

\* C27: an operation whose poll loop runs out of budget without the awaited
\* condition being seen returns an error.
C27_ExhaustedPollFails ==
    [][PollBudgetRunsOut => (nvPc' = "done" /\ nvRet' # ESP_OK)]_vars

\* The NVMC_CONFIG writes of the call are erase-enable, then read-only, and
\* the target is in read-only mode
EraseModeThenReadOnly ==
    /\ Len(configLog) = 2
    /\ configLog[1].mode = NVMC_CONFIG_EEN
    /\ configLog[2].mode = NVMC_CONFIG_REN
    /\ nvmcConfig = NVMC_CONFIG_REN

\* Ready was seen in one of the polls at 90, 100, ... 390 ms: after the
\* settle time, within 31 polls, before the timeout
ReadyWithinPoll ==
    /\ nvElapsed >= ERASE_SETTLE_MS
    /\ nvElapsed < ERASE_TIMEOUT_MS
    /\ (nvElapsed - ERASE_SETTLE_MS) \div ERASE_POLL_MS + 1 <= 31

\* C29: a page erase that returns ESP_OK enabled erase mode, triggered the
\* erase, waited the settle time, saw ready within the bounded poll, restored
\* read-only mode and read all four samples as erased, in this order; a page
\* erase whose poll used up the 400 ms returns ESP_ERR_TIMEOUT.
C29_ErasePageStages ==
    (nvOp = "erase_page" /\ nvPc = "done") =>
        /\ nvRet = ESP_OK =>
              (EraseModeThenReadOnly /\ ReadyWithinPoll /\ nvSample = 4)
        /\ nvElapsed >= ERASE_TIMEOUT_MS => nvRet = ESP_ERR_TIMEOUT

\* Ready came in the 31st poll, at 390 ms, and the erase succeeded
C29_Witness ==
    /\ nvOp = "erase_page" /\ nvPc = "done" /\ nvRet = ESP_OK
    /\ nvElapsed = 390
    /\ nvSample = 4
    /\ EraseModeThenReadOnly

-----------------------------------------------------------------------------
(* Transfer machine: swd_transfer_raw and parity32 (swd_core.c). A 32-bit  *)
(* word is a pair <<high half, low half>>.                                 *)

SWD_ACK_OK == 1
SWD_ACK_WAIT == 2
SWD_ACK_FAULT == 4
SWD_ACK_NACK == 7

\* Nothing returned yet; no word stored or driven
NO_ACK == -1
NoWord == <<>>

RECURSIVE BitXorN(_, _, _)
BitXorN(a, b, n) ==
    IF n = 0 THEN 0
    ELSE ((a + b) % 2) + 2 * BitXorN(a \div 2, b \div 2, n - 1)

RECURSIVE Pow2(_)
Pow2(n) == IF n = 0 THEN 1 ELSE 2 * Pow2(n - 1)

\* x ^ y on 32-bit words
Xor32(x, y) == <<BitXorN(x[1], y[1], 16), BitXorN(x[2], y[2], 16)>>

\* x >> k on a 32-bit word, 0 < k <= 16
Shr32(x, k) ==
    <<x[1] \div Pow2(k), (x[2] \div Pow2(k)) + (x[1] % Pow2(k)) * Pow2(16 - k)>>

\* Mutant of parity32: the fold of the upper half is missing
Parity32_NoHighFold(x) ==
    LET x2 == Xor32(x, Shr32(x, 8))
        x3 == Xor32(x2, Shr32(x2, 4))
    IN (27030 \div Pow2(x3[2] % 16)) % 2

\* parity32: x ^= x >> 16; x ^= x >> 8; x ^= x >> 4; x &= 0xF;
\* return (0x6996 >> x) & 1
parity32(x) ==
    LET x1 == Xor32(x, Shr32(x, 16))
        x2 == Xor32(x1, Shr32(x1, 8))
        x3 == Xor32(x2, Shr32(x2, 4))
    IN (27030 \div Pow2(x3[2] % 16)) % 2

\* Halves of the words transferred
WordHalves == {0, 1, 2, 255, 3855, 4660, 32767, 32768, 42405, 65535}

XferWords == WordHalves \X WordHalves

\* The three acknowledgement bits read from the wire
AckBits == 0..7

\* swd_transfer_raw(addr, ap, read, data): ack, value and parity_bit are what
\* the target drives; value is *data of a write
TransferRaw(read, ack, value, parity_bit) ==
    /\ ~xfIn.called
    /\ ack \in AckBits /\ value \in XferWords /\ parity_bit \in {0, 1}
    /\ xfIn' = [called |-> TRUE, read |-> read, ack |-> ack, value |-> value,
                parity_bit |-> parity_bit]
    /\ IF ack = SWD_ACK_OK
       THEN IF read
            THEN /\ xfWire' = NoWord
                 /\ IF parity_bit # parity32(value)
                    THEN xfRet' = SWD_ACK_FAULT /\ xfData' = NoWord
                    ELSE xfRet' = ack /\ xfData' = value
            ELSE /\ xfWire' = <<value, parity32(value)>>
                 /\ xfData' = NoWord
                 /\ xfRet' = ack
       ELSE /\ xfWire' = NoWord
            /\ xfData' = NoWord
            /\ xfRet' = ack
    /\ UNCHANGED notXf

NoTransfer ==
    [called |-> FALSE, read |-> FALSE, ack |-> 0, value |-> <<0, 0>>, parity_bit |-> 0]

\* The caller takes the acknowledgement and the data and goes on
TransferReturns ==
    /\ xfIn.called
    /\ xfIn' = NoTransfer
    /\ xfRet' = NO_ACK
    /\ xfData' = NoWord
    /\ xfWire' = NoWord
    /\ UNCHANGED notXf

XfInit ==
    /\ xfIn = NoTransfer
    /\ xfRet = NO_ACK
    /\ xfData = NoWord
    /\ xfWire = NoWord

XfNext ==
    \/ \E read \in BOOLEAN, ack \in AckBits, value \in XferWords, parity_bit \in {0, 1} :
            TransferRaw(read, ack, value, parity_bit)
    \/ TransferReturns

-----------------------------------------------------------------------------
(* Claims about the transfer *)

RECURSIVE BitCount(_, _)
BitCount(a, n) == IF n = 0 THEN 0 ELSE (a % 2) + BitCount(a \div 2, n - 1)

\* The XOR of the 32 bits of a word
XorOfBits(v) == (BitCount(v[1], 16) + BitCount(v[2], 16)) % 2

\* C17: the parity bit driven with a written word is the XOR of its 32 bits;
\* a read acknowledged OK whose parity bit differs from the XOR of the 32
\* data bits returns FAULT, which is not NACK, and stores no data word; a read
\* whose parity bit agrees returns OK and stores the word.
C17_ParityChecked ==
    xfIn.called /\ xfIn.ack = SWD_ACK_OK =>
        IF xfIn.read
        THEN IF xfIn.parity_bit # XorOfBits(xfIn.value)
             THEN xfRet = SWD_ACK_FAULT /\ xfRet # SWD_ACK_NACK /\ xfData = NoWord
             ELSE xfRet = SWD_ACK_OK /\ xfData = xfIn.value
        ELSE xfWire = <<xfIn.value, XorOfBits(xfIn.value)>>

C17_Witness ==
    /\ xfIn.called /\ xfIn.ack = SWD_ACK_OK /\ xfIn.read
    /\ xfIn.value = <<32768, 1>> /\ xfIn.parity_bit = 1
    /\ xfRet = SWD_ACK_FAULT /\ xfData = NoWord

-----------------------------------------------------------------------------
(* Connect machine: swd_connect and swd_power_up (swd_core.c)              *)

POWER_UP_POLLS == 200

\* The other variables of the mass-erase machine, which holds connected
meRest == <<mePc, meRet, elapsed_ms, polls, ctrlApWrites, idrValue, verifyReads>>

\* What the connect machine leaves alone besides connected
notCn == <<uploadVars, regVars, meRest, blkVars, nvVars, xfVars, svVars, mbVars, crVars, etVars, psVars, mqVars, wrVars, rbVars, lkVars, bwVars, wnVars, tfVars, ckVars>>

\* An IDCODE read: swd_dp_read failed and idcode keeps its 0, or it read a
\* word: nothing, a floating line, a Cortex-M4 debug port
IdcodeReads ==
    {[ret |-> ESP_FAIL, idcode |-> ZERO_WORD]}
        \cup {[ret |-> ESP_OK, idcode |-> v] : v \in IdcodeValues}

\* Mutant of ProbeFailed: an IDCODE of all ones is accepted
ProbeFailed_AcceptOnes(r) == r.ret # ESP_OK \/ r.idcode = ZERO_WORD

\* Mutant of ProbeFailed: an IDCODE of zero is accepted
ProbeFailed_AcceptZero(r) == r.ret # ESP_OK \/ r.idcode = ERASED_WORD

\* ret != ESP_OK || idcode == 0 || idcode == 0xFFFFFFFF
ProbeFailed(r) == r.ret # ESP_OK \/ r.idcode = ZERO_WORD \/ r.idcode = ERASED_WORD

\* High halves of the CTRL/STAT words read: both acknowledgements, both with
\* the requests, the debug one only, the system one only, none
CtrlStatHighs == {40960, 61440, 8192, 32768, 0}

\* (status & 0xA0000000) == 0xA0000000
PowerAcked(hi) == (hi \div 32768) % 2 = 1 /\ (hi \div 8192) % 2 = 1

CnReturn(ret) == cnPc' = "done" /\ cnRet' = ret

CnGoto(pc) == cnPc' = pc /\ cnRet' = "pending"

\* swd_connect is entered when the link is not marked connected:
\* ensure_swd_ready calls it when swd_is_connected() is false, the mass erase
\* after swd_disconnect(). Entry, dormant_wakeup and the first IDCODE read
ConnectEntry(r) ==
    /\ cnPc \in {"idle", "done"}
    /\ ~connected
    /\ r \in IdcodeReads
    /\ cnPolls' = 0
    /\ IF ~initialized
       THEN cnLog' = <<>> /\ cnProbes' = <<>> /\ CnReturn(ESP_ERR_INVALID_STATE)
       ELSE /\ cnLog' = <<"dormant_wakeup", "probe">>
            /\ cnProbes' = <<r>>
            /\ IF ProbeFailed(r) THEN CnGoto("legacy") ELSE CnGoto("power")
    /\ UNCHANGED connected
    /\ UNCHANGED notCn

\* line_reset, jtag_to_swd and the second IDCODE read
ConnectLegacy(r) ==
    /\ cnPc = "legacy"
    /\ r \in IdcodeReads
    /\ cnLog' = cnLog \o <<"line_reset", "jtag_to_swd", "probe">>
    /\ cnProbes' = Append(cnProbes, r)
    /\ IF ProbeFailed(r) THEN CnReturn(ESP_FAIL) ELSE CnGoto("power")
    /\ UNCHANGED <<cnPolls, connected>>
    /\ UNCHANGED notCn

\* swd_power_up: swd_clear_errors, whose result is dropped, and the power-up
\* request swd_dp_write(DP_CTRL_STAT, 0x50000000)
PowerUpRequest(ret) ==
    /\ cnPc = "power"
    /\ ret \in AccessRets
    /\ cnPolls' = 0
    /\ IF ret # ESP_OK
       THEN cnLog' = cnLog \o <<"clear_errors", "power_request_failed">> /\ CnReturn(ret)
       ELSE cnLog' = cnLog \o <<"clear_errors", "power_request">> /\ CnGoto("poll")
    /\ UNCHANGED <<cnProbes, connected>>
    /\ UNCHANGED notCn

\* One iteration of for (i = 0; i < 200; i++): read CTRL/STAT (status stays 0
\* when the read fails); both acknowledgements: swd_clear_errors, return
\* ESP_OK, and swd_connect sets connected; after the last iteration
\* ESP_ERR_TIMEOUT
PowerUpPoll(ret, hi) ==
    /\ cnPc = "poll"
    /\ cnPolls < POWER_UP_POLLS
    /\ ret \in AccessRets /\ hi \in CtrlStatHighs
    /\ LET status == IF ret = ESP_OK THEN hi ELSE 0
       IN IF PowerAcked(status)
          THEN /\ cnLog' = cnLog \o <<"power_ack", "clear_errors">>
               /\ cnPolls' = cnPolls + 1
               /\ connected' = TRUE
               /\ CnReturn(ESP_OK)
          ELSE /\ cnPolls' = cnPolls + 1
               /\ UNCHANGED <<cnLog, connected>>
               /\ IF cnPolls' < POWER_UP_POLLS
                  THEN CnGoto("poll")
                  ELSE CnReturn(ESP_ERR_TIMEOUT)
    /\ UNCHANGED cnProbes
    /\ UNCHANGED notCn

\* The caller goes on and ends with swd_disconnect on the initialized link:
\* connected = false
LinkDisconnect ==
    /\ cnPc = "done"
    /\ initialized
    /\ connected
    /\ connected' = FALSE
    /\ cnPc' = "idle"
    /\ UNCHANGED <<cnRet, cnLog, cnProbes, cnPolls>>
    /\ UNCHANGED notCn

CnInit ==
    /\ cnPc = "idle"
    /\ cnRet = "none"
    /\ cnLog = <<>>
    /\ cnProbes = <<>>
    /\ cnPolls = 0

CnNext ==
    \/ SwdInit
    \/ \E r \in IdcodeReads : ConnectEntry(r)
    \/ \E r \in IdcodeReads : ConnectLegacy(r)
    \/ \E ret \in AccessRets : PowerUpRequest(ret)
    \/ \E ret \in AccessRets, hi \in CtrlStatHighs : PowerUpPoll(ret, hi)
    \/ LinkDisconnect

-----------------------------------------------------------------------------
(* Claims about connect *)

\* An IDCODE read that gave no plausible IDCODE
BadIdcode(r) == r.ret # ESP_OK \/ r.idcode = <<0, 0>> \/ r.idcode = <<65535, 65535>>

ConnectReturned == cnPc = "done" /\ cnRet # ESP_ERR_INVALID_STATE

\* C11: a connect whose IDCODE read after the dormant wake-up was bad has,
\* when it returns, driven line reset and the JTAG-to-SWD sequence and read
\* IDCODE again; one that returns without ever reading a plausible IDCODE has
\* done exactly: dormant wake-up, read, line reset, JTAG-to-SWD, read.
C11_BothSequencesTried ==
    /\ (ConnectReturned /\ cnProbes # <<>> /\ BadIdcode(cnProbes[1])) =>
          /\ Len(cnProbes) = 2
          /\ SubSeq(cnLog, 1, 5) =
                <<"dormant_wakeup", "probe", "line_reset", "jtag_to_swd", "probe">>
    /\ (ConnectReturned /\ cnLog # <<>> /\ \A i \in DOMAIN cnProbes : BadIdcode(cnProbes[i])) =>
          /\ cnRet = ESP_FAIL
          /\ cnLog = <<"dormant_wakeup", "probe", "line_reset", "jtag_to_swd", "probe">>

C11_Witness ==
    /\ cnPc = "done" /\ cnRet = ESP_FAIL
    /\ cnProbes = <<[ret |-> ESP_OK, idcode |-> <<65535, 65535>>],
                    [ret |-> ESP_OK, idcode |-> <<65535, 65535>>]>>

-----------------------------------------------------------------------------
(* Server machine: the request handlers that use the SWD link, run by the   *)
(* one httpd task (main.c start_webserver, web_upload.c)                    *)

\* The other variables of the upload and of the register machine
uploadRest == <<upPc, g_mass_erased, g_flash_status, status_msg, ctx, flash, fed,
                eofSeen, eraseCalls, writeCalls, flushFailed, startMassErased>>

regRest == <<regStack, regOp, regRet, xfers, acksSeen, target, glitches>>

notSv == <<uploadRest, regRest, meRest, blkVars, nvVars, xfVars, cnVars, mbVars, crVars, etVars, psVars, mqVars, wrVars, rbVars, lkVars, bwVars, wnVars, tfVars, ckVars>>
notMb == <<uploadVars, regVars, meVars, blkVars, nvVars, xfVars, cnVars, svVars, crVars, etVars, psVars, mqVars, wrVars, rbVars, lkVars, bwVars, wnVars, tfVars, ckVars>>
notCr == <<uploadVars, regVars, meVars, blkVars, nvVars, xfVars, cnVars, svVars, mbVars, etVars, psVars, mqVars, wrVars, rbVars, lkVars, bwVars, wnVars, tfVars, ckVars>>
notEt == <<uploadVars, regVars, meVars, blkVars, nvVars, xfVars, cnVars, svVars, mbVars, crVars, psVars, mqVars, wrVars, rbVars, lkVars, bwVars, wnVars, tfVars, ckVars>>
notPs == <<uploadVars, regVars, meVars, blkVars, nvVars, xfVars, cnVars, svVars, mbVars, crVars, etVars, mqVars, wrVars, rbVars, lkVars, bwVars, wnVars, tfVars, ckVars>>
notMq == <<uploadVars, regVars, meVars, blkVars, nvVars, xfVars, cnVars, svVars, mbVars, crVars, etVars, psVars, wrVars, rbVars, lkVars, bwVars, wnVars, tfVars, ckVars>>
notWr == <<uploadVars, regVars, meVars, blkVars, nvVars, xfVars, cnVars, svVars, mbVars, crVars, etVars, psVars, mqVars, rbVars, lkVars, bwVars, wnVars, tfVars, ckVars>>
notRb == <<uploadVars, regVars, meVars, blkVars, nvVars, xfVars, cnVars, svVars, mbVars, crVars, etVars, psVars, mqVars, wrVars, lkVars, bwVars, wnVars, tfVars, ckVars>>
notLk == <<uploadVars, regVars, meVars, blkVars, nvVars, xfVars, cnVars, svVars, mbVars, crVars, etVars, psVars, mqVars, wrVars, rbVars, bwVars, wnVars, tfVars, ckVars>>
notBw == <<uploadVars, regVars, meVars, blkVars, nvVars, xfVars, cnVars, svVars, mbVars, crVars, etVars, psVars, mqVars, wrVars, rbVars, lkVars, wnVars, tfVars, ckVars>>
notWn == <<uploadVars, regVars, meVars, blkVars, nvVars, xfVars, cnVars, svVars, mbVars, crVars, etVars, psVars, mqVars, wrVars, rbVars, lkVars, bwVars, tfVars, ckVars>>
notTf == <<uploadVars, regVars, meVars, blkVars, nvVars, xfVars, cnVars, svVars, mbVars, crVars, etVars, psVars, mqVars, wrVars, rbVars, lkVars, bwVars, wnVars, ckVars>>
notCk == <<uploadVars, regVars, meVars, blkVars, nvVars, xfVars, cnVars, svVars, mbVars, crVars, etVars, psVars, mqVars, wrVars, rbVars, lkVars, bwVars, wnVars, tfVars>>

\* /flash_stored, /check_swd, /mass_erase, /reset_target, /release_swd
Requests == {"flash_stored", "check_swd", "mass_erase", "reset_target", "release_swd"}

\* The state of the link: swd_core.c's statics, the pins, and the histories
Link ==
    [init |-> initialized, conn |-> connected, pins |-> pinsDriven,
     est |-> established, wire |-> wire, rel |-> lastRelease, fresh |-> svFresh]

SetLink(L) ==
    /\ initialized' = L.init
    /\ connected' = L.conn
    /\ pinsDriven' = L.pins
    /\ established' = L.est
    /\ wire' = L.wire
    /\ lastRelease' = L.rel
    /\ svFresh' = L.fresh

\* Mutant of swd_dp_disconnect: the to-dormant pattern before the 60 clocks
swd_dp_disconnect_DormantFirst(L) ==
    [L EXCEPT !.wire = @ \o <<"power_down_request", "power_down_ack_poll",
                              "to_dormant_16", "clocks_high_60">>]

\* swd_dp_disconnect: CTRL/STAT = 0, poll the acknowledgements, 60 clocks with
\* SWDIO high, the 16 bits of 0xE3BC
swd_dp_disconnect(L) ==
    [L EXCEPT !.wire = @ \o <<"power_down_request", "power_down_ack_poll",
                              "clocks_high_60", "to_dormant_16">>]

\* swd_release_target: nothing when not initialized, else it ends with
\* swd_dp_disconnect
swd_release_target(L) == IF L.init THEN swd_dp_disconnect(L) ELSE L

\* swd_shutdown: nothing when not initialized; swd_dp_disconnect when
\* connected; the pins become inputs
swd_shutdown(L) ==
    IF ~L.init
    THEN L
    ELSE LET D == IF L.conn THEN swd_dp_disconnect(L) ELSE L
         IN [D EXCEPT !.conn = FALSE, !.pins = FALSE, !.init = FALSE,
                      !.rel = [est |-> D.est, wire |-> D.wire],
                      !.est = FALSE, !.wire = <<>>]

\* swd_is_connected: a connected link is probed by an IDCODE read, and a bad
\* read marks it not connected; the result is the conn field
swd_is_connected(L, idcodeOk) ==
    IF L.conn /\ ~idcodeOk THEN [L EXCEPT !.conn = FALSE] ELSE L

\* swd_connect, ret being what the probes and the power-up give
swd_connect(L, ret) ==
    IF L.init /\ ret = ESP_OK
    THEN [L EXCEPT !.conn = TRUE, !.est = TRUE, !.wire = <<>>, !.fresh = TRUE]
    ELSE L

\* swd_disconnect
swd_disconnect(L) ==
    IF L.init /\ L.conn THEN [swd_release_target(L) EXCEPT !.conn = FALSE] ELSE L

\* ensure_swd_ready: swd_init or swd_reinit, then swd_connect unless
\* swd_is_connected(); ESP_OK exactly when the link ends connected
ensure_swd_ready(L, idcodeOk, ret) ==
    LET I == [L EXCEPT !.init = TRUE, !.pins = TRUE]
        S == swd_is_connected(I, idcodeOk)
    IN IF S.conn THEN S ELSE swd_connect(S, ret)

\* swd_flash_disable_approtect as the link sees it: it returns at once when
\* swd_is_connected() is false, may return before the erase is done, and
\* after it calls swd_disconnect and swd_connect
swd_flash_disable_approtect(L, idcodeOk, erased, ret) ==
    LET S == swd_is_connected(L, idcodeOk)
    IN IF ~S.conn \/ ~erased THEN S ELSE swd_connect(swd_disconnect(S), ret)

\* Mutant of TaskFree: a request is dispatched while a handler runs
TaskFree_Always == TRUE

\* The server has one task, which calls one handler at a time
TaskFree == svTask = "idle"

\* A request reaches the server
Arrive(req) ==
    /\ req \in Requests
    /\ req \notin svPending
    /\ svPending' = svPending \cup {req}
    /\ UNCHANGED <<svTask, svPc, pinsDriven, established, wire, lastRelease, svFresh,
                   svFinished, svOverlap>>
    /\ UNCHANGED <<initialized, connected, g_flash_in_progress>>
    /\ UNCHANGED notSv

\* The task takes a request and calls its handler
Dispatch(req) ==
    /\ TaskFree
    /\ req \in svPending
    /\ svPending' = svPending \ {req}
    /\ svTask' = req
    /\ svPc' = "entry"
    /\ svFresh' = FALSE
    /\ UNCHANGED <<pinsDriven, established, wire, lastRelease, svFinished, svOverlap>>
    /\ UNCHANGED <<initialized, connected, g_flash_in_progress>>
    /\ UNCHANGED notSv

\* The handler returns, leaving the link as L
HandlerReturns(L) ==
    /\ SetLink(L)
    /\ svTask' = "idle"
    /\ svPc' = "idle"
    /\ svFinished' = [req |-> svTask, fresh |-> L.fresh, conn |-> L.conn, pins |-> L.pins]
    /\ UNCHANGED svPending

\* Another handler than the flash uses the link
UsesLink == svOverlap' = (svOverlap \/ g_flash_in_progress)

\* flash_stored_handler up to the parse loop: no file, or ensure_swd_ready
FlashStoredEntry(fileOk, idcodeOk, ret) ==
    /\ svTask = "flash_stored" /\ svPc = "entry"
    /\ IF ~fileOk
       THEN g_flash_in_progress' = FALSE /\ HandlerReturns(Link)
       ELSE LET E == ensure_swd_ready(Link, idcodeOk, ret)
            IN IF ~E.conn
               THEN g_flash_in_progress' = FALSE /\ HandlerReturns(E)
               ELSE /\ g_flash_in_progress' = TRUE
                    /\ SetLink(E)
                    /\ svPc' = "parse"
                    /\ UNCHANGED <<svTask, svPending, svFinished>>
    /\ UNCHANGED svOverlap
    /\ UNCHANGED notSv

\* hex_flash_callback, end-of-file record: swd_flash_reset_and_run, which ends
\* with swd_release_target, and swd_shutdown
FlashStoredEof ==
    /\ svTask = "flash_stored" /\ svPc = "parse"
    /\ SetLink(swd_shutdown(swd_release_target(Link)))
    /\ svPc' = "after_eof"
    /\ UNCHANGED <<svTask, svPending, svFinished, svOverlap, g_flash_in_progress>>
    /\ UNCHANGED notSv

\* The parse loop ends, at the end of the file or at a record that does not
\* parse: g_flash_in_progress = false and the handler returns
FlashStoredEnd ==
    /\ svTask = "flash_stored" /\ svPc \in {"parse", "after_eof"}
    /\ g_flash_in_progress' = FALSE
    /\ HandlerReturns(Link)
    /\ UNCHANGED svOverlap
    /\ UNCHANGED notSv

\* check_swd_handler: the registers are read and swd_shutdown is called when
\* ensure_swd_ready gave ESP_OK
CheckSwd(idcodeOk, ret) ==
    /\ svTask = "check_swd"
    /\ LET E == ensure_swd_ready(Link, idcodeOk, ret)
       IN HandlerReturns(IF E.conn THEN swd_shutdown(E) ELSE E)
    /\ UsesLink
    /\ UNCHANGED g_flash_in_progress
    /\ UNCHANGED notSv

\* mass_erase_handler: ensure_swd_ready, swd_flash_disable_approtect,
\* swd_release_target, swd_shutdown
MassErase(idcodeOk, ret, idcodeOk2, erased, ret2) ==
    /\ svTask = "mass_erase"
    /\ LET E == ensure_swd_ready(Link, idcodeOk, ret)
           A == swd_flash_disable_approtect(E, idcodeOk2, erased, ret2)
       IN HandlerReturns(swd_shutdown(swd_release_target(A)))
    /\ UsesLink
    /\ UNCHANGED g_flash_in_progress
    /\ UNCHANGED notSv

\* reset_target_handler: swd_flash_reset_and_run, swd_shutdown
ResetTarget ==
    /\ svTask = "reset_target"
    /\ HandlerReturns(swd_shutdown(swd_release_target(Link)))
    /\ UsesLink
    /\ UNCHANGED g_flash_in_progress
    /\ UNCHANGED notSv

\* release_swd_handler: swd_release_target and swd_shutdown when
\* swd_is_connected()
ReleaseSwd(idcodeOk) ==
    /\ svTask = "release_swd"
    /\ LET S == swd_is_connected(Link, idcodeOk)
       IN HandlerReturns(IF S.conn THEN swd_shutdown(swd_release_target(S)) ELSE S)
    /\ UsesLink
    /\ UNCHANGED g_flash_in_progress
    /\ UNCHANGED notSv

SvInit ==
    /\ svTask = "idle"
    /\ svPc = "idle"
    /\ svPending = {}
    /\ pinsDriven = FALSE
    /\ established = FALSE
    /\ wire = <<>>
    /\ lastRelease = [est |-> FALSE, wire |-> <<>>]
    /\ svFresh = FALSE
    /\ svFinished = [req |-> "none", fresh |-> FALSE, conn |-> FALSE, pins |-> FALSE]
    /\ svOverlap = FALSE

SvNext ==
    \/ \E req \in Requests : Arrive(req)
    \/ \E req \in Requests : Dispatch(req)
    \/ \E fileOk, idcodeOk \in BOOLEAN, ret \in ConnectRets :
          FlashStoredEntry(fileOk, idcodeOk, ret)
    \/ FlashStoredEof
    \/ FlashStoredEnd
    \/ \E idcodeOk \in BOOLEAN, ret \in ConnectRets : CheckSwd(idcodeOk, ret)
    \/ \E idcodeOk, idcodeOk2, erased \in BOOLEAN, ret, ret2 \in ConnectRets :
          MassErase(idcodeOk, ret, idcodeOk2, erased, ret2)
    \/ ResetTarget
    \/ \E idcodeOk \in BOOLEAN : ReleaseSwd(idcodeOk)

-----------------------------------------------------------------------------
(* Claims about the handlers *)

\* s holds the disconnect sequence, in order and without a gap
HasDisconnectSequence(s) ==
    \E i \in 1..Len(s) :
        /\ i + 3 <= Len(s)
        /\ s[i] = "power_down_request"
        /\ s[i + 1] = "power_down_ack_poll"
        /\ s[i + 2] = "clocks_high_60"
        /\ s[i + 3] = "to_dormant_16"

\* C13: when the pins were released after a connection had been established,
\* the link had driven, since that connection, the power-down request, the
\* poll for its acknowledgement, 60 clocks with the data line high and the
\* 16-bit to-dormant pattern, in this order.
C13_DisconnectBeforeRelease ==
    lastRelease.est => HasDisconnectSequence(lastRelease.wire)

C13_Witness ==
    /\ svFinished.req = "check_swd"
    /\ svFinished.fresh
    /\ ~pinsDriven
    /\ lastRelease.est
    /\ Len(lastRelease.wire) = 4

\* C14: when a flash from the stored file, a status check or a mass erase has
\* returned, the connection it established is torn down: the link is not
\* marked connected and the pins are released.
C14_TornDownAfterRequest ==
    (svFinished.req \in {"flash_stored", "check_swd", "mass_erase"} /\ svFinished.fresh) =>
        (~svFinished.conn /\ ~svFinished.pins)

-----------------------------------------------------------------------------
(* Buffer machine: swd_mem_write_buffer followed by swd_mem_read_buffer     *)
(* (swd_mem.c) against a memory of 32-bit little-endian words              *)

MaxBytes == 5

\* Addresses the calls start at, and the word indices they can reach
BufferAddrs == 0..7

MemWords == 0..((7 + MaxBytes) \div 4)

\* Buffers: size bytes of a counting pattern, of zeros, of 0xFF
Buffers(size) ==
    {[i \in 1..size |-> 160 + i], [i \in 1..size |-> 0], [i \in 1..size |-> 255]}

\* (uint8_t*)&word: the four bytes of a word, lowest first
WordBytes(w) == <<w[2] % 256, w[2] \div 256, w[1] % 256, w[1] \div 256>>

\* The word whose bytes are b
BytesWord(b) == <<b[3] + 256 * b[4], b[1] + 256 * b[2]>>

\* Mutant of Splice: the bytes of the word after the copied ones become 0
Splice_ZeroRest(word_bytes, offset, bytes) ==
    [j \in 1..4 |-> IF j <= offset THEN word_bytes[j]
                    ELSE IF j - offset <= Len(bytes) THEN bytes[j - offset]
                    ELSE 0]

\* memcpy(&word_bytes[offset], buffer, n)
Splice(word_bytes, offset, bytes) ==
    [j \in 1..4 |-> IF j > offset /\ j - offset <= Len(bytes)
                    THEN bytes[j - offset]
                    ELSE word_bytes[j]]

\* bytes_to_copy = 4 - offset; if (bytes_to_copy > size) bytes_to_copy = size
BytesToCopy(offset, size) == Min(4 - offset, size)

\* The memory before any write: every byte differs from its neighbours
InitialMemory == [k \in MemWords |-> BytesWord([j \in 1..4 |-> 16 + 4 * k + j])]

NoCall == [addr |-> 0, size |-> 0, ret |-> "none"]

MbWriteReturn(ret) ==
    /\ mbPc' = "written"
    /\ mbWrite' = [mbWrite EXCEPT !.ret = ret]

MbReadReturn(ret) ==
    /\ mbPc' = "done"
    /\ mbRead' = [mbRead EXCEPT !.ret = ret]

\* swd_mem_write_buffer(addr, buffer, size)
WriteBufferCall(addr, buffer) ==
    /\ mbPc = "idle"
    /\ mbAddr' = addr
    /\ mbSize' = Len(buffer)
    /\ mbPos' = 0
    /\ mbIn' = buffer
    /\ IF Len(buffer) = 0
       THEN /\ mbPc' = "written"
            /\ mbWrite' = [addr |-> addr, size |-> 0, ret |-> ESP_ERR_INVALID_ARG]
       ELSE /\ mbPc' = IF addr % 4 # 0 THEN "w_head" ELSE "w_words"
            /\ mbWrite' = [addr |-> addr, size |-> Len(buffer), ret |-> "pending"]
    /\ UNCHANGED <<mbMem, mbOut, mbRead>>
    /\ UNCHANGED notMb

\* if (addr & 0x3): read the word, replace its bytes from offset on, write it back
WriteHead(rd, wr) ==
    /\ mbPc = "w_head"
    /\ LET aligned == mbAddr - (mbAddr % 4)
           offset == mbAddr % 4
           n == BytesToCopy(offset, mbSize)
           word == BytesWord(Splice(WordBytes(mbMem[aligned \div 4]), offset,
                                    SubSeq(mbIn, mbPos + 1, mbPos + n)))
       IN IF rd # ESP_OK
          THEN MbWriteReturn(rd) /\ UNCHANGED <<mbMem, mbAddr, mbSize, mbPos>>
          ELSE IF wr # ESP_OK
          THEN MbWriteReturn(wr) /\ UNCHANGED <<mbMem, mbAddr, mbSize, mbPos>>
          ELSE /\ mbMem' = [mbMem EXCEPT ![aligned \div 4] = word]
               /\ mbAddr' = mbAddr + n
               /\ mbSize' = mbSize - n
               /\ mbPos' = mbPos + n
               /\ mbPc' = "w_words"
               /\ UNCHANGED mbWrite
    /\ UNCHANGED <<mbIn, mbOut, mbRead>>
    /\ UNCHANGED notMb

\* while (size >= 4): one word; then to the remaining bytes or to the return
WriteWords(wr) ==
    /\ mbPc = "w_words"
    /\ IF mbSize >= 4
       THEN IF wr # ESP_OK
            THEN MbWriteReturn(wr) /\ UNCHANGED <<mbMem, mbAddr, mbSize, mbPos>>
            ELSE /\ mbMem' = [mbMem EXCEPT ![mbAddr \div 4] =
                                  BytesWord(SubSeq(mbIn, mbPos + 1, mbPos + 4))]
                 /\ mbAddr' = mbAddr + 4
                 /\ mbSize' = mbSize - 4
                 /\ mbPos' = mbPos + 4
                 /\ UNCHANGED <<mbPc, mbWrite>>
       ELSE /\ IF mbSize > 0
               THEN mbPc' = "w_tail" /\ UNCHANGED mbWrite
               ELSE MbWriteReturn(ESP_OK)
            /\ UNCHANGED <<mbMem, mbAddr, mbSize, mbPos>>
    /\ UNCHANGED <<mbIn, mbOut, mbRead>>
    /\ UNCHANGED notMb

\* if (size > 0): read the word, replace its first size bytes, write it back
WriteTail(rd, wr) ==
    /\ mbPc = "w_tail"
    /\ LET word == BytesWord(Splice(WordBytes(mbMem[mbAddr \div 4]), 0,
                                    SubSeq(mbIn, mbPos + 1, mbPos + mbSize)))
       IN IF rd # ESP_OK
          THEN MbWriteReturn(rd) /\ UNCHANGED mbMem
          ELSE IF wr # ESP_OK
          THEN MbWriteReturn(wr) /\ UNCHANGED mbMem
          ELSE /\ mbMem' = [mbMem EXCEPT ![mbAddr \div 4] = word]
               /\ MbWriteReturn(ESP_OK)
    /\ UNCHANGED <<mbAddr, mbSize, mbPos, mbIn, mbOut, mbRead>>
    /\ UNCHANGED notMb

\* swd_mem_read_buffer(addr, buffer, size)
ReadBufferCall(addr, size) ==
    /\ mbPc = "written"
    /\ mbAddr' = addr
    /\ mbSize' = size
    /\ mbPos' = 0
    /\ mbOut' = <<>>
    /\ IF size = 0
       THEN /\ mbPc' = "done"
            /\ mbRead' = [addr |-> addr, size |-> 0, ret |-> ESP_ERR_INVALID_ARG]
       ELSE /\ mbPc' = IF addr % 4 # 0 THEN "r_head" ELSE "r_words"
            /\ mbRead' = [addr |-> addr, size |-> size, ret |-> "pending"]
    /\ UNCHANGED <<mbMem, mbIn, mbWrite>>
    /\ UNCHANGED notMb

\* if (addr & 0x3): read the word and copy its bytes from offset on
ReadHead(rd) ==
    /\ mbPc = "r_head"
    /\ LET aligned == mbAddr - (mbAddr % 4)
           offset == mbAddr % 4
           n == BytesToCopy(offset, mbSize)
       IN IF rd # ESP_OK
          THEN MbReadReturn(rd) /\ UNCHANGED <<mbAddr, mbSize, mbPos, mbOut>>
          ELSE /\ mbOut' = mbOut \o SubSeq(WordBytes(mbMem[aligned \div 4]),
                                           offset + 1, offset + n)
               /\ mbAddr' = mbAddr + n
               /\ mbSize' = mbSize - n
               /\ mbPos' = mbPos + n
               /\ mbPc' = "r_words"
               /\ UNCHANGED mbRead
    /\ UNCHANGED <<mbMem, mbIn, mbWrite>>
    /\ UNCHANGED notMb

\* while (size >= 4): one word; then to the remaining bytes or to the return
ReadWords(rd) ==
    /\ mbPc = "r_words"
    /\ IF mbSize >= 4
       THEN IF rd # ESP_OK
            THEN MbReadReturn(rd) /\ UNCHANGED <<mbAddr, mbSize, mbPos, mbOut>>
            ELSE /\ mbOut' = mbOut \o WordBytes(mbMem[mbAddr \div 4])
                 /\ mbAddr' = mbAddr + 4
                 /\ mbSize' = mbSize - 4
                 /\ mbPos' = mbPos + 4
                 /\ UNCHANGED <<mbPc, mbRead>>
       ELSE /\ IF mbSize > 0
               THEN mbPc' = "r_tail" /\ UNCHANGED mbRead
               ELSE MbReadReturn(ESP_OK)
            /\ UNCHANGED <<mbAddr, mbSize, mbPos, mbOut>>
    /\ UNCHANGED <<mbMem, mbIn, mbWrite>>
    /\ UNCHANGED notMb

\* if (size > 0): read the word and copy its first size bytes
ReadTail(rd) ==
    /\ mbPc = "r_tail"
    /\ IF rd # ESP_OK
       THEN MbReadReturn(rd) /\ UNCHANGED mbOut
       ELSE /\ mbOut' = mbOut \o SubSeq(WordBytes(mbMem[mbAddr \div 4]), 1, mbSize)
            /\ MbReadReturn(ESP_OK)
    /\ UNCHANGED <<mbMem, mbAddr, mbSize, mbPos, mbIn, mbWrite>>
    /\ UNCHANGED notMb

MbInit ==
    /\ mbPc = "idle"
    /\ mbMem = InitialMemory
    /\ mbAddr = 0
    /\ mbSize = 0
    /\ mbPos = 0
    /\ mbIn = <<>>
    /\ mbOut = <<>>
    /\ mbWrite = NoCall
    /\ mbRead = NoCall

MbNext ==
    \/ \E addr \in BufferAddrs, size \in 0..MaxBytes :
          \E buffer \in Buffers(size) : WriteBufferCall(addr, buffer)
    \/ \E rd, wr \in AccessRets : WriteHead(rd, wr)
    \/ \E wr \in AccessRets : WriteWords(wr)
    \/ \E rd, wr \in AccessRets : WriteTail(rd, wr)
    \/ \E addr \in BufferAddrs, size \in 0..MaxBytes : ReadBufferCall(addr, size)
    \/ \E rd \in AccessRets : ReadHead(rd)
    \/ \E rd \in AccessRets : ReadWords(rd)
    \/ \E rd \in AccessRets : ReadTail(rd)

-----------------------------------------------------------------------------
(* Claims about the buffer operations *)

\* The byte of memory m at address a, the lowest byte of a word first
ByteAt(m, a) ==
    LET w == m[a \div 4]
        k == a % 4
    IN IF k = 0 THEN w[2] % 256
       ELSE IF k = 1 THEN w[2] \div 256
       ELSE IF k = 2 THEN w[1] % 256
       ELSE w[1] \div 256

\* A write of 1..3 bytes at an unaligned address and a read of as many bytes
\* from the same address have both returned ESP_OK
UnalignedRoundTrip ==
    /\ mbPc = "done"
    /\ mbWrite.ret = ESP_OK /\ mbRead.ret = ESP_OK
    /\ mbWrite.addr % 4 # 0
    /\ mbWrite.size \in 1..3
    /\ mbRead.addr = mbWrite.addr /\ mbRead.size = mbWrite.size

\* C16: after writing N bytes (0 < N < 4) at an address not divisible by 4 and
\* reading N bytes from the same address, the bytes read are the bytes
\* written, and every byte of memory outside the written range has the value it
\* had before the write.
C16_UnalignedRoundTrip ==
    UnalignedRoundTrip =>
        /\ mbOut = mbIn
        /\ \A a \in 0..(4 * Cardinality(MemWords) - 1) :
              (a < mbWrite.addr \/ a >= mbWrite.addr + mbWrite.size) =>
                  ByteAt(mbMem, a) = 16 + a + 1

\* The round trip that crosses into the next word: 2 bytes at offset 3
C16_Witness ==
    /\ UnalignedRoundTrip
    /\ mbWrite.addr = 7 /\ mbWrite.size = 2
    /\ mbOut = <<161, 162>>

-----------------------------------------------------------------------------
(* Core-register machine: swd_read_core_register and                        *)
(* swd_write_core_register (swd_mem.c)                                      *)

DHCSR_S_HALT == 131072
DHCSR_S_REGRDY == 65536
REGRDY_POLLS == 100

\* dhcsr & bit, for a one-bit mask
HasBit(v, bit) == (v \div bit) % 2 = 1

\* Mutant of NotHalted: the halt check never fails
NotHalted_Never(dhcsr) == FALSE

\* !(dhcsr & DHCSR_S_HALT)
NotHalted(dhcsr) == ~HasBit(dhcsr, DHCSR_S_HALT)

\* The DHCSR word of a target: S_HALT as the core is, S_REGRDY as it answers
Dhcsr(halted, ready) ==
    (IF halted THEN DHCSR_S_HALT ELSE 0) + (IF ready THEN DHCSR_S_REGRDY ELSE 0)

CrReturn(ret) == crPc' = "done" /\ crRet' = ret

\* The call: swd_read_core_register(reg, &value) or
\* swd_write_core_register(reg, value), the core running or halted
CoreRegisterCall(op, halted) ==
    /\ crPc = "idle"
    /\ op \in {"read", "write"}
    /\ crOp' = op
    /\ crHalted' = halted
    /\ crPc' = "check"
    /\ crRet' = "pending"
    /\ UNCHANGED <<crPolls, crDhcsr, crWrites, crFailed>>
    /\ UNCHANGED notCr

\* swd_mem_read32(DHCSR_ADDR, &dhcsr) and the halt check
CheckHalted(rd, ready) ==
    /\ crPc = "check"
    /\ IF rd # ESP_OK
       THEN CrReturn(rd) /\ crFailed' = TRUE /\ UNCHANGED crDhcsr
       ELSE /\ crDhcsr' = Dhcsr(crHalted, ready)
            /\ UNCHANGED crFailed
            /\ IF NotHalted(crDhcsr')
               THEN CrReturn(ESP_ERR_INVALID_STATE)
               ELSE crPc' = "select" /\ UNCHANGED crRet
    /\ UNCHANGED <<crOp, crHalted, crPolls, crWrites>>
    /\ UNCHANGED notCr

\* read: DCRSR = reg. write: DCRDR = value, then DCRSR = reg | (1 << 16)
SelectRegister(wr1, wr2) ==
    /\ crPc = "select"
    /\ IF crOp = "read"
       THEN IF wr1 # ESP_OK
            THEN CrReturn(wr1) /\ crFailed' = TRUE /\ UNCHANGED crWrites
            ELSE /\ crWrites' = Append(crWrites, "DCRSR")
                 /\ crPc' = "poll"
                 /\ UNCHANGED <<crRet, crFailed>>
       ELSE IF wr1 # ESP_OK
            THEN CrReturn(wr1) /\ crFailed' = TRUE /\ UNCHANGED crWrites
            ELSE IF wr2 # ESP_OK
            THEN /\ CrReturn(wr2)
                 /\ crFailed' = TRUE
                 /\ crWrites' = Append(crWrites, "DCRDR")
            ELSE /\ crWrites' = crWrites \o <<"DCRDR", "DCRSR">>
                 /\ crPc' = "poll"
                 /\ UNCHANGED <<crRet, crFailed>>
    /\ crPolls' = 0
    /\ UNCHANGED <<crOp, crHalted, crDhcsr>>
    /\ UNCHANGED notCr

\* One iteration of for (i = 0; i < 100; i++): read DHCSR; S_REGRDY ends the
\* loop (the write returns ESP_OK); after the last iteration ESP_ERR_TIMEOUT
PollRegisterReady(rd, ready) ==
    /\ crPc = "poll"
    /\ crPolls < REGRDY_POLLS
    /\ crPolls' = crPolls + 1
    /\ IF rd # ESP_OK
       THEN CrReturn(rd) /\ crFailed' = TRUE /\ UNCHANGED crDhcsr
       ELSE /\ crDhcsr' = Dhcsr(crHalted, ready)
            /\ UNCHANGED crFailed
            /\ IF HasBit(crDhcsr', DHCSR_S_REGRDY)
               THEN IF crOp = "read"
                    THEN crPc' = "data" /\ UNCHANGED crRet
                    ELSE CrReturn(ESP_OK)
               ELSE IF crPolls' < REGRDY_POLLS
                    THEN UNCHANGED <<crPc, crRet>>
                    ELSE CrReturn(ESP_ERR_TIMEOUT)
    /\ UNCHANGED <<crOp, crHalted, crWrites>>
    /\ UNCHANGED notCr

\* return swd_mem_read32(DCRDR_ADDR, value)
ReadRegisterData(rd) ==
    /\ crPc = "data"
    /\ CrReturn(rd)
    /\ crFailed' = (rd # ESP_OK)
    /\ UNCHANGED <<crOp, crHalted, crPolls, crDhcsr, crWrites>>
    /\ UNCHANGED notCr

CrInit ==
    /\ crPc = "idle"
    /\ crOp = "none"
    /\ crRet = "none"
    /\ crHalted = FALSE
    /\ crPolls = 0
    /\ crDhcsr = 0
    /\ crWrites = <<>>
    /\ crFailed = FALSE

CrNext ==
    \/ \E op \in {"read", "write"}, halted \in BOOLEAN : CoreRegisterCall(op, halted)
    \/ \E rd \in AccessRets, ready \in BOOLEAN : CheckHalted(rd, ready)
    \/ \E wr1, wr2 \in AccessRets : SelectRegister(wr1, wr2)
    \/ \E rd \in AccessRets, ready \in BOOLEAN : PollRegisterReady(rd, ready)
    \/ \E rd \in AccessRets : ReadRegisterData(rd)

-----------------------------------------------------------------------------
(* Claims about core register access *)

CoreRegReturned == crPc = "done"

\* No DHCSR word read in the call had S_REGRDY set while it polled
NeverReady == (crDhcsr \div 65536) % 2 = 0

\* C20, as stated: a call on a running core returns ESP_ERR_INVALID_STATE and
\* writes neither DCRSR nor DCRDR; a call on a halted core polls at most 100
\* times and returns ESP_ERR_TIMEOUT when the ready bit was never set.
C20_Original ==
    /\ (CoreRegReturned /\ ~crHalted) =>
          (crRet = ESP_ERR_INVALID_STATE /\ crWrites = <<>>)
    /\ crPolls <= 100
    /\ (CoreRegReturned /\ crHalted /\ crPolls > 0 /\ NeverReady) =>
          crRet = ESP_ERR_TIMEOUT

\* C20, amended: a call on a running core writes neither DCRSR nor DCRDR, and
\* returns ESP_ERR_INVALID_STATE when its read of DHCSR succeeded; a call on a
\* halted core polls at most 100 times, and when none of its accesses failed
\* and the ready bit was never set it returns ESP_ERR_TIMEOUT after exactly
\* 100 polls.
C20_HaltedRequired ==
    /\ ~crHalted => crWrites = <<>>
    /\ (CoreRegReturned /\ ~crHalted /\ ~crFailed) => crRet = ESP_ERR_INVALID_STATE
    /\ crPolls <= 100
    /\ (CoreRegReturned /\ crHalted /\ ~crFailed /\ NeverReady) =>
          (crRet = ESP_ERR_TIMEOUT /\ crPolls = 100)
    /\ crRet = ESP_ERR_TIMEOUT => (crPolls = 100 /\ NeverReady)

C20_Witness ==
    /\ CoreRegReturned /\ crHalted /\ crOp = "write"
    /\ crRet = ESP_ERR_TIMEOUT /\ crPolls = 100
    /\ crWrites = <<"DCRDR", "DCRSR">>

-----------------------------------------------------------------------------
(* Repeated-erase machine: swd_flash_erase_page called again and again on   *)
(* one page of a target that works: every access succeeds, the NVMC takes   *)
(* the mode written to it, and an erase is done within its 295 ms           *)

MaxErases == 2

VERIFY_DELAY_MS == 5

\* What the page holds before the first call: nothing, a word at one of the
\* sampled offsets, a word that is not sampled, a programmed start of the page
PageContents == {{}, {0}, {4092}, {100}, {0, 4, 8, 12}}

\* The time the NVMC takes for the erase
EraseDurations == {85, 90, 200, 295}

\* uint32_t verify_offsets[] = {0, 4, 8, NRF52_FLASH_PAGE_SIZE - 4}
VerifyOffsets == <<0, 4, 8, NRF52_PAGE_SIZE - 4>>

\* vTaskDelay(ms) as the erasing NVMC sees it
AfterDelay(busy, ms) == IF busy > ms THEN busy - ms ELSE 0

\* Mutant of TimedOut: the settle time is taken for the timeout
TimedOut_AtSettle(elapsed) == elapsed >= ERASE_SETTLE_MS

\* elapsed_ms >= timeout_ms
TimedOut(elapsed) == elapsed >= ERASE_TIMEOUT_MS

\* The call returns: cleanup (mode back to read-only) unless it returns ESP_OK,
\* which it does from read-only mode
EraseReturns(ret) ==
    /\ etPc' = "idle"
    /\ etConfig' = NVMC_CONFIG_REN
    /\ etRuns' = Append(etRuns, [before |-> etBefore, ret |-> ret, page |-> etPage,
                                 config |-> NVMC_CONFIG_REN])

\* swd_flash_erase_page(addr): the range check, the alignment,
\* wait_nvmc_ready(500), set_nvmc_config(NVMC_CONFIG_EEN) and the second read
\* of NVMC_CONFIG. The first call finds the page as it is; a later call is
\* for the same page
ErasePageAgain(addr, page) ==
    /\ etPc = "idle"
    /\ Len(etRuns) < MaxErases
    /\ ErasePageArgOk(addr)
    /\ IF etRuns = <<>>
       THEN etPage' = page
       ELSE PageOf(addr) = etAddr /\ page = etPage /\ UNCHANGED etPage
    /\ etBefore' = etPage'
    /\ etAddr' = PageOf(addr)
    /\ etBusy' = 0
    /\ etConfig' = NVMC_CONFIG_EEN
    /\ etPc' = "et_trigger"
    /\ etElapsed' = 0
    /\ etSample' = 0
    /\ UNCHANGED etRuns
    /\ UNCHANGED notEt

\* swd_mem_write32(NVMC_ERASEPAGE, addr) in erase mode: the page is erased,
\* which takes the NVMC d ms; then vTaskDelay(90), elapsed_ms = 90
EraseTrigger(d) ==
    /\ etPc = "et_trigger"
    /\ d \in EraseDurations
    /\ etPage' = IF etConfig = NVMC_CONFIG_EEN THEN {} ELSE etPage
    /\ etBusy' = AfterDelay(d, ERASE_SETTLE_MS)
    /\ etElapsed' = ERASE_SETTLE_MS
    /\ etPc' = "et_poll"
    /\ UNCHANGED <<etAddr, etSample, etConfig, etBefore, etRuns>>
    /\ UNCHANGED notEt

\* while (elapsed_ms < timeout_ms): the loop condition and one iteration, the
\* NVMC_READY read; a loop left by its condition returns ESP_ERR_TIMEOUT, one
\* left by the break goes on to set_nvmc_config(NVMC_CONFIG_REN)
ErasePoll ==
    /\ etPc = "et_poll"
    /\ IF TimedOut(etElapsed)
       THEN EraseReturns(ESP_ERR_TIMEOUT) /\ UNCHANGED <<etElapsed, etBusy>>
       ELSE IF etBusy = 0
       THEN /\ etConfig' = NVMC_CONFIG_REN
            /\ etBusy' = AfterDelay(etBusy, VERIFY_DELAY_MS)
            /\ etPc' = "et_verify"
            /\ UNCHANGED <<etElapsed, etRuns>>
       ELSE /\ etElapsed' = etElapsed + ERASE_POLL_MS
            /\ etBusy' = AfterDelay(etBusy, ERASE_POLL_MS)
            /\ UNCHANGED <<etPc, etConfig, etRuns>>
    /\ UNCHANGED <<etAddr, etSample, etPage, etBefore>>
    /\ UNCHANGED notEt

\* One sample of the verification loop: the word at addr + verify_offsets[i]
\* is read (twice when it is not 0xFFFFFFFF)
EraseVerify ==
    /\ etPc = "et_verify"
    /\ etSample < 4
    /\ IF VerifyOffsets[etSample + 1] \in etPage
       THEN EraseReturns(ESP_FAIL) /\ UNCHANGED etSample
       ELSE /\ etSample' = etSample + 1
            /\ IF etSample' < 4
               THEN UNCHANGED <<etPc, etConfig, etRuns>>
               ELSE EraseReturns(ESP_OK)
    /\ UNCHANGED <<etAddr, etElapsed, etPage, etBusy, etBefore>>
    /\ UNCHANGED notEt

EtInit ==
    /\ etPc = "idle"
    /\ etAddr = 0
    /\ etElapsed = 0
    /\ etSample = 0
    /\ etConfig = NVMC_CONFIG_REN
    /\ etPage = {}
    /\ etBusy = 0
    /\ etBefore = {}
    /\ etRuns = <<>>

EtNext ==
    \/ \E addr \in {4096, 4660}, page \in PageContents \cup {etPage} :
          ErasePageAgain(addr, page)
    \/ \E d \in EraseDurations : EraseTrigger(d)
    \/ ErasePoll
    \/ EraseVerify

-----------------------------------------------------------------------------
(* Claims about repeated erases *)

\* C19: on a target that works, erasing a page that is already erased returns
\* ESP_OK, its verification having passed, and a second erase of the same page
\* right after the first returns what the first returned and leaves the page
\* and the NVMC mode as the first left them.
C19_EraseIdempotent ==
    /\ \A i \in 1..Len(etRuns) :
          etRuns[i].before = {} =>
              /\ etRuns[i].ret = ESP_OK
              /\ etRuns[i].page = {}
    /\ \A i \in 2..Len(etRuns) :
          /\ etRuns[i].ret = etRuns[i - 1].ret
          /\ etRuns[i].page = etRuns[i - 1].page
          /\ etRuns[i].config = etRuns[i - 1].config

C19_Witness ==
    /\ Len(etRuns) = MaxErases
    /\ etRuns[1].before = {0, 4, 8, 12}
    /\ etRuns[MaxErases].before = {}
    /\ etRuns[MaxErases].ret = ESP_OK
    /\ etPc = "idle"

-----------------------------------------------------------------------------
(* Parser machine: parse_hex_line and hex_stream_parse (hex_parser.c) under *)
(* the parse loop of flash_stored_handler (web_upload.c), with the callback *)
(* hex_flash_callback of the upload machine                                 *)

ESP_ERR_INVALID_SIZE == "ESP_ERR_INVALID_SIZE"
ESP_ERR_INVALID_CRC == "ESP_ERR_INVALID_CRC"

HEX_TYPE_DATA == 0
HEX_TYPE_EOF == 1
HEX_TYPE_EXT_SEG_ADDR == 2
HEX_TYPE_EXT_LIN_ADDR == 4
HEX_TYPE_START_LIN_ADDR == 5

(* Bounds of the parser machine *)
MaxLines == 3            \* lines per stream

RECURSIVE SumBytes(_)
SumBytes(s) == IF s = <<>> THEN 0 ELSE Head(s) + SumBytes(Tail(s))

\* parse_hex_line: the checksum it calculates, (~sum) + 1 in a uint8_t
LineChecksum(count, address, type, data) ==
    (256 - ((count + (address \div 256) + (address % 256) + type + SumBytes(data)) % 256)) % 256

\* A line of the stream: whether it starts with ':', whether it has all the
\* characters its byte count asks for, whether it is longer than the line
\* buffer, and the fields its characters spell
HexLine(count, address, type, data) ==
    [colon |-> TRUE, complete |-> TRUE, overlong |-> FALSE, byte_count |-> count,
     address |-> address, type |-> type, data |-> data,
     checksum |-> LineChecksum(count, address, type, data)]

\* The lines a stream is made of. Data records carry 4 bytes at 0xFFF0,
\* 0x0000 or 0x0010; the address records select upper halves 0x0000 and
\* 0x0001, or the segment 0x1000; every sum of addresses stays below 2^31.
GoodLines ==
    {HexLine(4, a, HEX_TYPE_DATA, <<1, 2, 3, 4>>) : a \in {65520, 0, 16}}
      \cup {HexLine(2, 0, HEX_TYPE_EXT_LIN_ADDR, <<0, u>>) : u \in {0, 1}}
      \cup {HexLine(2, 0, HEX_TYPE_EXT_SEG_ADDR, <<16, 0>>),
            HexLine(4, 0, HEX_TYPE_START_LIN_ADDR, <<0, 0, 0, 1>>),
            HexLine(0, 0, HEX_TYPE_EOF, <<>>)}

\* The lines that get damaged: a data record and the end-of-file record
DamagedFrom ==
    {HexLine(4, 16, HEX_TYPE_DATA, <<1, 2, 3, 4>>), HexLine(0, 0, HEX_TYPE_EOF, <<>>)}

BadLines ==
    {[l EXCEPT !.checksum = (@ + 1) % 256] : l \in DamagedFrom}
      \cup {[l EXCEPT !.complete = FALSE] : l \in DamagedFrom}
      \cup {[l EXCEPT !.colon = FALSE] : l \in DamagedFrom}
      \cup {[l EXCEPT !.overlong = TRUE] : l \in DamagedFrom}

StreamLines == GoodLines \cup BadLines

\* Outcomes of the SWD operations of a flush in this machine
ParserFlushOutcomes == {"ok", "write_fail"}

\* parse_hex_line(line, &record)
parse_hex_line(l) ==
    IF ~l.colon THEN ESP_ERR_INVALID_ARG
    ELSE IF ~l.complete THEN ESP_ERR_INVALID_SIZE
    ELSE IF LineChecksum(l.byte_count, l.address, l.type, l.data) # l.checksum
         THEN ESP_ERR_INVALID_CRC
    ELSE ESP_OK

\* hex_stream_parse, HEX_TYPE_EXT_LIN_ADDR: data[0] << 24 | data[1] << 16
ExtendedLinear(data) == data[1] * 16777216 + data[2] * 65536

\* hex_stream_parse, HEX_TYPE_EXT_SEG_ADDR: ((data[0] << 8) | data[1]) << 4
ExtendedSegment(data) == (data[1] * 256 + data[2]) * 16

\* An entry of the callback's history
CallbackEntry(ev, addr) == [ev |-> ev, addr |-> addr, base |-> extended_addr + segment_addr]

\* flash_stored_handler up to the parse loop, SWD ready: the context is
\* allocated and hex_stream_create returns the parser or NULL
ParseStart(created) ==
    /\ psPc = "idle"
    /\ psPc' = "parsing"
    /\ psParser' = created
    /\ extended_addr' = 0
    /\ segment_addr' = 0
    /\ line_count' = 0
    /\ psCtx' = NewContext
    /\ psRet' = ESP_OK
    /\ psStatus' = "Starting flash..."
    /\ UNCHANGED <<psFlash, psFed, psRecords, psRejected, psLog>>
    /\ UNCHANGED notPs

\* hex_stream_parse reaches the end of a line too long for line_buffer: the
\* characters are dropped and what follows is the rest of that line, which
\* parse_hex_line rejects; hex_stream_parse goes on
OverlongLine(l) ==
    /\ l.overlong
    /\ UNCHANGED <<extended_addr, segment_addr, line_count, psCtx, psFlash,
                   psRecords, psLog>>

\* hex_stream_parse on a line parse_hex_line rejects: logged, nothing else
RejectedLine(l) ==
    /\ ~l.overlong
    /\ parse_hex_line(l) # ESP_OK
    /\ UNCHANGED <<extended_addr, segment_addr, line_count, psCtx, psFlash,
                   psRecords, psLog>>

\* hex_stream_parse on a data record: the callback gets it with its
\* absolute address; out is the outcome of the flush the callback may make
DataLine(l, out) ==
    /\ ~l.overlong
    /\ parse_hex_line(l) = ESP_OK
    /\ l.type = HEX_TYPE_DATA
    /\ LET abs_addr == l.address + extended_addr + segment_addr
           k == psRecords + 1
           flushed == NeedsFlush(psCtx, abs_addr, l.byte_count)
           f == IF flushed THEN FlushBuffer(psCtx, psFlash, FALSE, out)
                ELSE NoFlush(psCtx, psFlash)
       IN /\ psCtx' = DataCallback(psCtx, f, abs_addr, l.byte_count, k)
          /\ psFlash' = f.flash
          /\ psRecords' = k
          /\ psLog' = psLog \o (IF flushed
                                THEN <<CallbackEntry("flush", psCtx.buffer_start_addr)>>
                                ELSE <<>>)
                            \o <<CallbackEntry("copy", abs_addr)>>
    /\ line_count' = line_count + 1
    /\ UNCHANGED <<extended_addr, segment_addr>>

\* hex_stream_parse on the end-of-file record: the callback flushes
EofLine(l, out) ==
    /\ ~l.overlong
    /\ parse_hex_line(l) = ESP_OK
    /\ l.type = HEX_TYPE_EOF
    /\ LET f == FlushBuffer(psCtx, psFlash, FALSE, out)
       IN /\ psCtx' = f.ctx
          /\ psFlash' = f.flash
          /\ psLog' = Append(psLog, CallbackEntry("flush", psCtx.buffer_start_addr))
    /\ line_count' = line_count + 1
    /\ UNCHANGED <<extended_addr, segment_addr, psRecords>>

\* hex_stream_parse on an address record or a start-address record: the
\* parser's base changes; the callback is not called
AddressLine(l) ==
    /\ ~l.overlong
    /\ parse_hex_line(l) = ESP_OK
    /\ l.type \in {HEX_TYPE_EXT_LIN_ADDR, HEX_TYPE_EXT_SEG_ADDR, HEX_TYPE_START_LIN_ADDR}
    /\ extended_addr' = IF l.type = HEX_TYPE_EXT_LIN_ADDR
                        THEN ExtendedLinear(l.data) ELSE extended_addr
    /\ segment_addr' = IF l.type = HEX_TYPE_EXT_SEG_ADDR
                       THEN ExtendedSegment(l.data) ELSE segment_addr
    /\ line_count' = line_count + 1
    /\ UNCHANGED <<psCtx, psFlash, psRecords, psLog>>

\* The parse loop gives hex_stream_parse the next line of the file; it
\* returns ESP_OK whatever the line was
ParseLine(l, out) ==
    /\ psPc = "parsing"
    /\ psParser
    /\ psFed < MaxLines
    /\ \/ OverlongLine(l)
       \/ RejectedLine(l)
       \/ DataLine(l, out)
       \/ EofLine(l, out)
       \/ AddressLine(l)
    /\ psRejected' = (psRejected \/ l.overlong \/ parse_hex_line(l) # ESP_OK)
    /\ psFed' = psFed + 1
    /\ psRet' = ESP_OK
    /\ psStatus' = "Flashing"
    /\ UNCHANGED <<psPc, psParser>>
    /\ UNCHANGED notPs

\* The parse loop with ctx->parser NULL: hex_stream_parse returns
\* ESP_ERR_INVALID_ARG for the first chunk and the loop breaks
ParseNoParser ==
    /\ psPc = "parsing"
    /\ ~psParser
    /\ psRet = ESP_OK
    /\ psRet' = ESP_ERR_INVALID_ARG
    /\ psStatus' = "Flash failed"
    /\ UNCHANGED <<psPc, psParser, extended_addr, segment_addr, line_count, psCtx,
                   psFlash, psFed, psRecords, psRejected, psLog>>
    /\ UNCHANGED notPs

\* flash_stored_handler after the parse loop: the final status is set when
\* ret is ESP_OK
ParseFinish ==
    /\ psPc = "parsing"
    /\ psParser \/ psRet # ESP_OK
    /\ psPc' = "done"
    /\ psStatus' = IF psRet = ESP_OK THEN "Flash complete" ELSE psStatus
    /\ UNCHANGED <<psParser, extended_addr, segment_addr, line_count, psCtx,
                   psFlash, psRet, psFed, psRecords, psRejected, psLog>>
    /\ UNCHANGED notPs

PsInit ==
    /\ psPc = "idle"
    /\ psParser = FALSE
    /\ extended_addr = 0
    /\ segment_addr = 0
    /\ line_count = 0
    /\ psCtx = NewContext
    /\ psFlash = EmptyMap
    /\ psRet = "none"
    /\ psStatus = "Idle"
    /\ psFed = 0
    /\ psRecords = 0
    /\ psRejected = FALSE
    /\ psLog = <<>>

PsNext ==
    \/ \E c \in BOOLEAN : ParseStart(c)
    \/ \E l \in StreamLines, out \in ParserFlushOutcomes : ParseLine(l, out)
    \/ ParseNoParser
    \/ ParseFinish

-----------------------------------------------------------------------------
(* Claims about the parser machine *)

\* C24: between two consecutive copies of data records whose base addresses
\* differ, the buffered data was flushed.
C24_FlushBeforeNewBase ==
    \A i, j \in 1..Len(psLog) :
        (/\ i < j
         /\ psLog[i].ev = "copy"
         /\ psLog[j].ev = "copy"
         /\ psLog[i].base # psLog[j].base)
            => \E m \in (i + 1)..(j - 1) : psLog[m].ev = "flush"

\* C25: a request whose stream had a rejected line ends with an error and
\* is not reported as 'Flash complete'.
C25_RejectedLineFails ==
    (psPc = "done" /\ psRejected) => (psRet # ESP_OK /\ psStatus # "Flash complete")

-----------------------------------------------------------------------------
(* Mass-erase request machine: mass_erase_handler (web_upload.c) with       *)
(* ensure_swd_ready, swd_flash_disable_approtect (swd_flash.c),             *)
(* swd_release_target and swd_shutdown (swd_core.c). It follows the DP      *)
(* SELECT register of the target and the order of the steps.                *)

\* DP SELECT values: AP#0 bank 0 (the MEM-AP), AP#1 bank 15, AP#1 bank 0
SELECT_MEM_AP == <<0, 0>>
SELECT_CTRL_AP_IDR == <<1, 15>>
SELECT_CTRL_AP == <<1, 0>>

\* Mutant of EraseAllReady: every status word ends the poll
EraseAllReady_Any(value) == TRUE

\* value == 0, CTRL_AP_ERASEALLSTATUS_READY
EraseAllReady(value) == value = ZERO_WORD

\* What ensure_swd_ready comes to: swd_init failed; swd_connect failed; the
\* link is connected and swd_flash_init ran
ReadyOutcomes == {"init_failed", "connect_failed", "connected"}

\* swd_dp_write(DP_SELECT, v) that returned ret
SelectWrite(v, ret) == IF ret = ESP_OK THEN v ELSE dpSelect

\* A memory operation issues its AP transfers under the current DP SELECT
MemoryOperation(sel) == memApSelects' = memApSelects \cup {sel}

MqReturn(ret) == mqPc' = "returned" /\ mqRet' = ret

MqGoto(pc) == mqPc' = pc /\ mqRet' = "pending"

\* mass_erase_handler: ensure_swd_ready, whose result is dropped. After a
\* connect it runs swd_flash_init: swd_mem_init writes DP SELECT and CSW, then
\* swd_mem_read32(NVMC_READY). Then the entry of
\* swd_flash_disable_approtect: swd_is_connected, swd_get_idcode.
MassEraseRequest(ready, selRet, idcode) ==
    /\ mqPc = "idle"
    /\ ready \in ReadyOutcomes /\ selRet \in AccessRets /\ idcode \in IdcodeValues
    /\ mqInitialized' = (ready # "init_failed")
    /\ mqElapsed' = 0
    /\ mqFailedPolls' = 0
    /\ eraseStatus' = ERASED_WORD
    /\ mqEvents' = <<>>
    /\ IF ready = "connected"
       THEN /\ dpSelect' = SelectWrite(SELECT_MEM_AP, selRet)
            /\ memApSelects' = IF selRet = ESP_OK THEN {dpSelect'} ELSE {}
            /\ IF idcode = ZERO_WORD \/ idcode = ERASED_WORD
               THEN MqReturn(ESP_ERR_INVALID_STATE)
               ELSE MqGoto("powerup")
       ELSE /\ memApSelects' = {}
            /\ UNCHANGED dpSelect
            /\ MqReturn(ESP_ERR_INVALID_STATE)
    /\ UNCHANGED notMq

\* Step 1: swd_dp_write(DP_CTRL_STAT, 0x50000000)
MqPowerUp(ret) ==
    /\ mqPc = "powerup"
    /\ ret \in AccessRets
    /\ IF ret # ESP_OK THEN MqReturn(ret) ELSE MqGoto("idr")
    /\ UNCHANGED <<mqInitialized, dpSelect, mqElapsed, mqFailedPolls, eraseStatus,
                   mqEvents, memApSelects>>
    /\ UNCHANGED notMq

\* Step 2: select AP#1 bank 15, read the IDR, check it
MqReadIdr(selRet, ret, value) ==
    /\ mqPc = "idr"
    /\ selRet \in AccessRets /\ ret \in AccessRets /\ value \in IdrValues
    /\ dpSelect' = SelectWrite(SELECT_CTRL_AP_IDR, selRet)
    /\ IF selRet # ESP_OK
       THEN MqReturn(selRet) /\ UNCHANGED mqEvents
       ELSE IF ret # ESP_OK
            THEN MqReturn(ret) /\ UNCHANGED mqEvents
            ELSE IF ~IdrMatches(value)
                 THEN MqReturn(ESP_ERR_NOT_FOUND) /\ UNCHANGED mqEvents
                 ELSE MqGoto("bank0") /\ mqEvents' = Append(mqEvents, "idr_ok")
    /\ UNCHANGED <<mqInitialized, mqElapsed, mqFailedPolls, eraseStatus, memApSelects>>
    /\ UNCHANGED notMq

\* Steps 3 and 4: select AP#1 bank 0; read APPROTECTSTATUS, which is only
\* logged
MqSelectBank0(selRet) ==
    /\ mqPc = "bank0"
    /\ selRet \in AccessRets
    /\ dpSelect' = SelectWrite(SELECT_CTRL_AP, selRet)
    /\ IF selRet # ESP_OK THEN MqReturn(selRet) ELSE MqGoto("trigger")
    /\ UNCHANGED <<mqInitialized, mqElapsed, mqFailedPolls, eraseStatus, mqEvents,
                   memApSelects>>
    /\ UNCHANGED notMq

\* Step 5: swd_ap_write(CTRL_AP_ERASEALL, 1) and the RDBUFF read whose result
\* is dropped
MqTrigger(ret) ==
    /\ mqPc = "trigger"
    /\ ret \in AccessRets
    /\ IF ret # ESP_OK
       THEN MqReturn(ret) /\ UNCHANGED mqEvents
       ELSE MqGoto("poll") /\ mqEvents' = Append(mqEvents, "trigger_set")
    /\ UNCHANGED <<mqInitialized, dpSelect, mqElapsed, mqFailedPolls, eraseStatus,
                   memApSelects>>
    /\ UNCHANGED notMq

\* Step 6, one iteration of while (elapsed_ms < timeout_ms). A failed read
\* writes DP SELECT again (selRet) and continues.
MqPoll(ret, selRet, value) ==
    /\ mqPc = "poll"
    /\ mqElapsed < TIMEOUT_MS
    /\ ret \in AccessRets /\ selRet \in AccessRets /\ value \in StatusValues
    /\ ret # ESP_OK => mqFailedPolls < MaxFailedPolls
    /\ IF ret # ESP_OK
       THEN /\ dpSelect' = SelectWrite(SELECT_CTRL_AP, selRet)
            /\ mqFailedPolls' = mqFailedPolls + 1
            /\ MqGoto("poll")
            /\ UNCHANGED <<mqElapsed, eraseStatus, mqEvents>>
       ELSE /\ UNCHANGED <<dpSelect, mqFailedPolls>>
            /\ IF EraseAllReady(value)
               THEN /\ MqGoto("reset")
                    /\ eraseStatus' = value
                    /\ mqEvents' = Append(mqEvents, "status_ready")
                    /\ UNCHANGED mqElapsed
               ELSE /\ mqElapsed' = mqElapsed + POLL_MS
                    /\ IF mqElapsed' < TIMEOUT_MS
                       THEN MqGoto("poll")
                       ELSE MqReturn(ESP_ERR_TIMEOUT)
                    /\ UNCHANGED <<eraseStatus, mqEvents>>
    /\ UNCHANGED <<mqInitialized, memApSelects>>
    /\ UNCHANGED notMq

\* Steps 7 and 8: CTRL_AP_RESET = 1, CTRL_AP_RESET = 0, CTRL_AP_ERASEALL = 0,
\* whose results are dropped, and swd_dp_write(DP_SELECT, 0), whose failure
\* is only logged
MqReset(selRet) ==
    /\ mqPc = "reset"
    /\ selRet \in AccessRets
    /\ mqEvents' = mqEvents \o <<"reset_asserted", "reset_deasserted", "trigger_cleared",
                                 "select_mem_ap">>
    /\ dpSelect' = SelectWrite(SELECT_MEM_AP, selRet)
    /\ MqGoto("reconnect")
    /\ UNCHANGED <<mqInitialized, mqElapsed, mqFailedPolls, eraseStatus, memApSelects>>
    /\ UNCHANGED notMq

\* Steps 9 and 10: swd_disconnect, swd_connect; then swd_mem_init and
\* swd_flash_init, whose results are dropped (selRet: their DP SELECT
\* writes), and the two verification reads when the link answers
MqReconnect(ret, selRet) ==
    /\ mqPc = "reconnect"
    /\ ret \in ConnectRets /\ selRet \in AccessRets
    /\ IF ret # ESP_OK
       THEN /\ MqReturn(ret)
            /\ mqEvents' = Append(mqEvents, "disconnect")
            /\ UNCHANGED <<dpSelect, memApSelects>>
       ELSE /\ MqReturn(ESP_OK)
            /\ mqEvents' = mqEvents \o <<"disconnect", "reconnect", "mem_init", "flash_init">>
            /\ dpSelect' = SelectWrite(SELECT_MEM_AP, selRet)
            /\ MemoryOperation(dpSelect')
    /\ UNCHANGED <<mqInitialized, mqElapsed, mqFailedPolls, eraseStatus>>
    /\ UNCHANGED notMq

\* mass_erase_handler after the mass erase: swd_release_target, which reads
\* and writes DHCSR, DEMCR with swd_mem_read32 and swd_mem_write32 when the
\* link is initialized; swd_shutdown
MqRelease ==
    /\ mqPc = "returned"
    /\ mqPc' = "idle"
    /\ IF mqInitialized THEN MemoryOperation(dpSelect) ELSE UNCHANGED memApSelects
    /\ mqInitialized' = FALSE
    /\ UNCHANGED <<mqRet, dpSelect, mqElapsed, mqFailedPolls, eraseStatus, mqEvents>>
    /\ UNCHANGED notMq

MqInit ==
    /\ mqPc = "idle"
    /\ mqRet = "none"
    /\ mqInitialized = FALSE
    /\ dpSelect = SELECT_MEM_AP
    /\ mqElapsed = 0
    /\ mqFailedPolls = 0
    /\ eraseStatus = ERASED_WORD
    /\ mqEvents = <<>>
    /\ memApSelects = {}

MqNext ==
    \/ \E ready \in ReadyOutcomes, selRet \in AccessRets, idcode \in IdcodeValues :
            MassEraseRequest(ready, selRet, idcode)
    \/ \E ret \in AccessRets : MqPowerUp(ret)
    \/ \E selRet, ret \in AccessRets, value \in IdrValues : MqReadIdr(selRet, ret, value)
    \/ \E selRet \in AccessRets : MqSelectBank0(selRet)
    \/ \E ret \in AccessRets : MqTrigger(ret)
    \/ \E ret, selRet \in AccessRets, value \in StatusValues : MqPoll(ret, selRet, value)
    \/ \E selRet \in AccessRets : MqReset(selRet)
    \/ \E ret \in ConnectRets, selRet \in AccessRets : MqReconnect(ret, selRet)
    \/ MqRelease

-----------------------------------------------------------------------------
(* Claims about the mass-erase request *)

\* C28: every AP transfer of a memory operation is issued while DP SELECT
\* selects the MEM-AP, AP#0 bank 0, after a mass erase that failed or stopped
\* part-way too.
C28_MemoryOpsOnMemAp == \A sel \in memApSelects : sel = SELECT_MEM_AP

\* The steps of a successful mass erase, in order
MassEraseOrder ==
    <<"idr_ok", "trigger_set", "status_ready", "reset_asserted", "reset_deasserted",
      "trigger_cleared", "select_mem_ap", "disconnect", "reconnect", "mem_init",
      "flash_init">>

\* The reset was asserted only after the erase status had read ready
ResetAfterReady ==
    \A i \in 1..Len(mqEvents) :
        mqEvents[i] = "reset_asserted" =>
            /\ eraseStatus = ZERO_WORD
            /\ \E j \in 1..(i - 1) : mqEvents[j] = "status_ready"

-----------------------------------------------------------------------------
(* Wire machine: swd_transfer_raw with swd_turnaround, write_bits,          *)
(* read_bits, send_request and write_parking (swd_core.c) at the pins,      *)
(* called by two tasks. A wire state is the record of drive_phase, the      *)
(* SWDIO direction and the pin activity so far.                             *)

(* Bounds of the wire machine *)
MaxTransfers == 3        \* transfers started in one behaviour

WireTasks == {1, 2}

Wire(dp, dir, log) == [drive_phase |-> dp, pinDir |-> dir, log |-> log]

PinEvent(n, ev) == [xfer |-> n, ev |-> ev]

\* swd_turnaround(to_write) within transfer n
swd_turnaround(w, to_write, n) ==
    [drive_phase |-> to_write,
     pinDir |-> IF to_write THEN "driving" ELSE "released",
     log |-> Append(w.log, PinEvent(n, IF to_write THEN "turn_write" ELSE "turn_read"))]

\* write_bits(value, count): ev names the bits driven
write_bits(w, ev, n) ==
    LET w1 == IF ~w.drive_phase THEN swd_turnaround(w, TRUE, n) ELSE w
    IN [w1 EXCEPT !.log = Append(@, PinEvent(n, ev))]

\* read_bits(count): ev names the bits sampled
read_bits(w, ev, n) ==
    LET w1 == IF w.drive_phase THEN swd_turnaround(w, FALSE, n) ELSE w
    IN [w1 EXCEPT !.log = Append(@, PinEvent(n, ev))]

\* write_parking()
write_parking(w, n) ==
    LET w1 == IF ~w.drive_phase THEN swd_turnaround(w, TRUE, n) ELSE w
    IN [w1 EXCEPT !.log = Append(@, PinEvent(n, "park"))]

\* Mutant of CriticalFree: portENTER_CRITICAL lets every task in
CriticalFree_Always(m) == TRUE

\* portENTER_CRITICAL(&swd_mutex) goes through when no task is inside
CriticalFree(m) == m = 0

\* Mutant of ErrorDrain: no turnaround before the dummy bits are counted
ErrorDrain_NoTurnaround(w, n) ==
    [w EXCEPT !.log = @ \o <<PinEvent(n, "dummy32"), PinEvent(n, "park")>>]

\* swd_transfer_raw, ack != SWD_ACK_OK: swd_turnaround(true),
\* write_bits(0, 32), write_parking()
ErrorDrain(w, n) ==
    write_parking(write_bits(swd_turnaround(w, TRUE, n), "dummy32", n), n)

\* swd_transfer_raw, ack OK, read: read_bits(32), read_bits(1),
\* swd_turnaround(true), write_parking()
ReadPhase(w, n) ==
    write_parking(swd_turnaround(read_bits(read_bits(w, "read32", n), "read_parity", n),
                                 TRUE, n), n)

\* swd_transfer_raw, ack OK, write: swd_turnaround(true), write_bits(*data, 32),
\* write_bits(parity, 1), write_parking()
WritePhase(w, n) ==
    write_parking(write_bits(write_bits(swd_turnaround(w, TRUE, n), "write32", n),
                             "write_parity", n), n)

WireNow == Wire(drive_phase, pinDir, pinLog)

SetWire(w) ==
    /\ drive_phase' = w.drive_phase
    /\ pinDir' = w.pinDir
    /\ pinLog' = w.log

\* swd_transfer_raw: portENTER_CRITICAL and send_request
TransferEnter(t, read) ==
    /\ wrPc[t] = "idle"
    /\ wrStarted < MaxTransfers
    /\ CriticalFree(swd_mutex)
    /\ swd_mutex' = t
    /\ wrStarted' = wrStarted + 1
    /\ wrXfer' = [wrXfer EXCEPT ![t] = wrStarted + 1]
    /\ wrRead' = [wrRead EXCEPT ![t] = read]
    /\ wrAck' = [wrAck EXCEPT ![t] = NO_ACK]
    /\ wrRet' = [wrRet EXCEPT ![t] = NO_ACK]
    /\ wrDelivered' = [wrDelivered EXCEPT ![t] = FALSE]
    /\ SetWire(write_bits(WireNow, "request8", wrStarted + 1))
    /\ wrPc' = [wrPc EXCEPT ![t] = "ack"]
    /\ UNCHANGED notWr

\* swd_transfer_raw: the turnaround to read and read_bits(3)
TransferAck(t, ack) ==
    /\ wrPc[t] = "ack"
    /\ ack \in AckBits
    /\ LET w1 == IF drive_phase THEN swd_turnaround(WireNow, FALSE, wrXfer[t]) ELSE WireNow
       IN SetWire(read_bits(w1, "ack3", wrXfer[t]))
    /\ wrAck' = [wrAck EXCEPT ![t] = ack]
    /\ wrPc' = [wrPc EXCEPT ![t] = "body"]
    /\ UNCHANGED <<wrRead, wrRet, wrDelivered, wrXfer, swd_mutex, wrStarted>>
    /\ UNCHANGED notWr

\* swd_transfer_raw: the branch the acknowledgement selects, up to
\* portEXIT_CRITICAL and the return; parityOk: the parity bit read agrees
\* with the word read
TransferBody(t, parityOk) ==
    /\ wrPc[t] = "body"
    /\ LET n == wrXfer[t]
       IN IF wrAck[t] = SWD_ACK_OK
          THEN IF wrRead[t]
               THEN /\ SetWire(ReadPhase(WireNow, n))
                    /\ wrRet' = [wrRet EXCEPT ![t] = IF parityOk THEN SWD_ACK_OK
                                                      ELSE SWD_ACK_FAULT]
                    /\ wrDelivered' = [wrDelivered EXCEPT ![t] = parityOk]
               ELSE /\ SetWire(WritePhase(WireNow, n))
                    /\ wrRet' = [wrRet EXCEPT ![t] = SWD_ACK_OK]
                    /\ UNCHANGED wrDelivered
          ELSE /\ SetWire(ErrorDrain(WireNow, n))
               /\ wrRet' = [wrRet EXCEPT ![t] = wrAck[t]]
               /\ UNCHANGED wrDelivered
    /\ swd_mutex' = IF swd_mutex = t THEN 0 ELSE swd_mutex
    /\ wrPc' = [wrPc EXCEPT ![t] = "returned"]
    /\ UNCHANGED <<wrRead, wrAck, wrXfer, wrStarted>>
    /\ UNCHANGED notWr

\* The caller takes the acknowledgement and goes on
TransferDone(t) ==
    /\ wrPc[t] = "returned"
    /\ wrPc' = [wrPc EXCEPT ![t] = "idle"]
    /\ wrXfer' = [wrXfer EXCEPT ![t] = 0]
    /\ UNCHANGED <<wrRead, wrAck, wrRet, wrDelivered, swd_mutex, drive_phase, pinDir,
                   wrStarted, pinLog>>
    /\ UNCHANGED notWr

WrInit ==
    /\ wrPc = [t \in WireTasks |-> "idle"]
    /\ wrRead = [t \in WireTasks |-> FALSE]
    /\ wrAck = [t \in WireTasks |-> NO_ACK]
    /\ wrRet = [t \in WireTasks |-> NO_ACK]
    /\ wrDelivered = [t \in WireTasks |-> FALSE]
    /\ wrXfer = [t \in WireTasks |-> 0]
    /\ swd_mutex = 0
    /\ drive_phase = TRUE
    /\ pinDir = "driving"
    /\ wrStarted = 0
    /\ pinLog = <<>>

WrNext ==
    \/ \E t \in WireTasks, read \in BOOLEAN : TransferEnter(t, read)
    \/ \E t \in WireTasks, ack \in AckBits : TransferAck(t, ack)
    \/ \E t \in WireTasks, parityOk \in BOOLEAN : TransferBody(t, parityOk)
    \/ \E t \in WireTasks : TransferDone(t)

-----------------------------------------------------------------------------
(* Claims about the wire *)

\* The pin activity a step added
PinActivityOfStep == SubSeq(pinLog', Len(pinLog) + 1, Len(pinLog'))

\* Task t returns from its transfer in this step
TransferEnds(t) == wrPc[t] = "body" /\ wrPc'[t] = "returned"

\* C31: when a transfer returns, whatever acknowledgement it read, the line
\* direction is 'driving'; after an acknowledgement other than OK the transfer
\* made the turnaround, clocked 32 dummy bits and the park bit, and assigned
\* no data.
C31_EndsDriving ==
    [][\A t \in WireTasks :
          TransferEnds(t) =>
             /\ drive_phase' /\ pinDir' = "driving"
             /\ wrAck[t] # SWD_ACK_OK =>
                   /\ PinActivityOfStep = <<PinEvent(wrXfer[t], "turn_write"),
                                            PinEvent(wrXfer[t], "dummy32"),
                                            PinEvent(wrXfer[t], "park")>>
                   /\ ~wrDelivered'[t]]_vars

\* A read acknowledged WAIT has returned
C31_Witness ==
    /\ wrPc[1] = "returned" /\ wrRead[1] /\ wrAck[1] = SWD_ACK_WAIT
    /\ wrRet[1] = SWD_ACK_WAIT /\ ~wrDelivered[1]
    /\ drive_phase /\ pinDir = "driving"
    /\ Len(pinLog) = 6

\* C32: the pin activity of one transfer is one block of the pin log: no
\* activity of another transfer lies between two of its entries.
C32_TransfersNotInterleaved ==
    \A i, k \in 1..Len(pinLog) :
        (i < k /\ pinLog[i].xfer = pinLog[k].xfer) =>
            \A j \in i..k : pinLog[j].xfer = pinLog[i].xfer

\* Both tasks made a transfer, the second task while the first had not yet
\* taken its result
C32_Witness ==
    /\ wrPc[1] = "returned" /\ wrPc[2] = "returned"
    /\ wrXfer[1] = 1 /\ wrXfer[2] = 2
    /\ \E i \in 1..Len(pinLog) : pinLog[i].xfer = 2 /\ pinLog[i].ev = "park"

-----------------------------------------------------------------------------
(* Reboot machine: failsafe_reboot_task and the background loop of app_main *)
(* (main.c), power_check_absolute_timer (power_mgmt.c), beside the server   *)
(* task running flash_stored_handler (web_upload.c). Time is counted in the *)
(* periods of the two loops.                                                *)

(* Bounds of the reboot machine *)
FailsafePeriods == 6     \* timeout_sec of the failsafe task, in periods of 10 s
UptimeChecks == 6        \* absolute_reboot_interval_sec left at boot, in checks
MaxFlashes == 2          \* flash requests in one behaviour

\* The device runs: esp_restart has not been called
Running == rbRestarted = "no"

\* esp_restart() called by who
Restart(who) ==
    /\ rbRestarted' = who
    /\ rbFlashAtRestart' = (rbFlash = "flashing")

\* The server task takes a flash request: flash_stored_handler starts. A
\* server that stop_webserver is stopping takes no request.
FlashRequestStarts ==
    /\ Running
    /\ rbFlash = "idle"
    /\ rbFailsafe = "counting"
    /\ rbFlashes < MaxFlashes
    /\ rbFlash' = "flashing"
    /\ rbFlashes' = rbFlashes + 1
    /\ UNCHANGED <<rbFailsafe, elapsed_sec, rtc_total_uptime_sec, rbRestarted,
                   rbFlashAtRestart>>
    /\ UNCHANGED notRb

\* flash_stored_handler returns: the target was released at the end of file
FlashRequestEnds ==
    /\ Running
    /\ rbFlash = "flashing"
    /\ rbFlash' = "idle"
    /\ UNCHANGED <<rbFlashes, rbFailsafe, elapsed_sec, rtc_total_uptime_sec, rbRestarted,
                   rbFlashAtRestart>>
    /\ UNCHANGED notRb

\* failsafe_reboot_task: one turn of while (elapsed_sec < timeout_sec)
FailsafeCount ==
    /\ Running
    /\ rbFailsafe = "counting"
    /\ elapsed_sec < FailsafePeriods
    /\ elapsed_sec' = elapsed_sec + 1
    /\ UNCHANGED <<rbFlash, rbFlashes, rbFailsafe, rtc_total_uptime_sec, rbRestarted,
                   rbFlashAtRestart>>
    /\ UNCHANGED notRb

\* failsafe_reboot_task after the loop: power_prepare_for_sleep, then
\* stop_webserver, whose httpd_stop waits for the server task
FailsafeTimeout ==
    /\ Running
    /\ rbFailsafe = "counting"
    /\ elapsed_sec >= FailsafePeriods
    /\ rbFailsafe' = "stopping"
    /\ UNCHANGED <<rbFlash, rbFlashes, elapsed_sec, rtc_total_uptime_sec, rbRestarted,
                   rbFlashAtRestart>>
    /\ UNCHANGED notRb

\* httpd_stop returned, the server task having left its handler;
\* esp_wifi_stop, esp_restart
FailsafeRestart ==
    /\ Running
    /\ rbFailsafe = "stopping"
    /\ rbFlash = "idle"
    /\ Restart("failsafe")
    /\ UNCHANGED <<rbFlash, rbFlashes, rbFailsafe, elapsed_sec, rtc_total_uptime_sec>>
    /\ UNCHANGED notRb

\* The background loop of app_main calls power_check_absolute_timer: the
\* uptime is added up and esp_restart is called when it reached the interval
AbsoluteTimerCheck ==
    /\ Running
    /\ rtc_total_uptime_sec' = rtc_total_uptime_sec + 1
    /\ IF rtc_total_uptime_sec' >= UptimeChecks
       THEN Restart("absolute")
       ELSE UNCHANGED <<rbRestarted, rbFlashAtRestart>>
    /\ UNCHANGED <<rbFlash, rbFlashes, rbFailsafe, elapsed_sec>>
    /\ UNCHANGED notRb

RbInit ==
    /\ rbFlash = "idle"
    /\ rbFlashes = 0
    /\ rbFailsafe = "counting"
    /\ elapsed_sec = 0
    /\ rtc_total_uptime_sec = 0
    /\ rbRestarted = "no"
    /\ rbFlashAtRestart = FALSE

RbNext ==
    \/ FlashRequestStarts
    \/ FlashRequestEnds
    \/ FailsafeCount
    \/ FailsafeTimeout
    \/ FailsafeRestart
    \/ AbsoluteTimerCheck

-----------------------------------------------------------------------------
(* Claims about the reboot machine *)

\* C33: neither the failsafe task nor the absolute uptime timer calls
\* esp_restart while a flash request is running.
C33_NoRestartDuringFlash == ~rbFlashAtRestart

-----------------------------------------------------------------------------
(* Link interface machine: the public calls of swd_core.c that read or     *)
(* write initialized and connected, called one after another in any order. *)

\* config.pin_reset as given to swd_init: no reset pin, or a GPIO number
PinValues == {-1, 7}

\* What the read of DHCSR in swd_release_target gives: no answer, or the
\* S_HALT bit clear or set
DhcsrReads == {"fail", "running", "halted"}

\* What the probes and the power-up of swd_connect give
LkConnectRets == {ESP_OK, ESP_FAIL, ESP_ERR_TIMEOUT}

\* The record of a call
Call(op, in) ==
    [op |-> op, in |-> in, wasInit |-> lkInitialized, wasConn |-> lkConnected,
     pin |-> pin_reset]

\* Mutant of release_target_steps: the reset comes before DEMCR is cleared
release_target_steps_ResetFirst(pin, dhcsr) ==
    <<"read_dhcsr">>
    \o (IF dhcsr = "halted" THEN <<"write_dhcsr_dbgkey_debugen">> ELSE <<>>)
    \o <<"write_dhcsr_dbgkey">>
    \o <<IF pin >= 0 THEN "reset_pin_pulse" ELSE "write_aircr_sysresetreq">>
    \o <<"write_demcr_0">>
    \o swd_dp_disconnect([wire |-> <<>>]).wire

\* swd_release_target once initialized: DHCSR is read; a halted core is
\* resumed (DBGKEY | C_DEBUGEN); DHCSR = DBGKEY; DEMCR = 0; the reset pin is
\* pulsed, or without one 0x05FA0004 is written to AIRCR; swd_dp_disconnect.
\* The results of the writes are not looked at.
release_target_steps(pin, dhcsr) ==
    <<"read_dhcsr">>
    \o (IF dhcsr = "halted" THEN <<"write_dhcsr_dbgkey_debugen">> ELSE <<>>)
    \o <<"write_dhcsr_dbgkey">>
    \o <<"write_demcr_0">>
    \o <<IF pin >= 0 THEN "reset_pin_pulse" ELSE "write_aircr_sysresetreq">>
    \o swd_dp_disconnect([wire |-> <<>>]).wire

\* Mutant of ConnectGuard: swd_connect without the check of initialized
ConnectGuard_None == TRUE

\* swd_connect returns ESP_ERR_INVALID_STATE unless initialized
ConnectGuard == lkInitialized

\* swd_connect: connected = true when the probes and the power-up succeed
LkSwdConnect(ret) ==
    lkConnected' = IF ConnectGuard /\ ret = ESP_OK THEN TRUE ELSE lkConnected

\* swd_init(cfg): config = *cfg, initialized = true, connected = false
LkSwdInit(pin) ==
    /\ pin \in PinValues
    /\ pin_reset' = pin
    /\ lkInitialized' = TRUE
    /\ lkConnected' = FALSE
    /\ lkCall' = Call("init", pin)
    /\ lkSteps' = <<>>
    /\ UNCHANGED notLk

\* swd_reinit: the pins again when initialized, else swd_init(&config)
LkReinit ==
    /\ lkInitialized' = TRUE
    /\ lkConnected' = IF lkInitialized THEN lkConnected ELSE FALSE
    /\ lkCall' = Call("reinit", 0)
    /\ lkSteps' = <<>>
    /\ UNCHANGED pin_reset
    /\ UNCHANGED notLk

\* swd_connect
LkConnect(ret) ==
    /\ ret \in LkConnectRets
    /\ LkSwdConnect(ret)
    /\ lkCall' = Call("connect", ret)
    /\ lkSteps' = <<>>
    /\ UNCHANGED <<lkInitialized, pin_reset>>
    /\ UNCHANGED notLk

\* swd_is_connected: a connected link is probed by an IDCODE read, and a bad
\* read clears connected
LkIsConnected(idcodeOk) ==
    /\ idcodeOk \in BOOLEAN
    /\ lkConnected' = (lkConnected /\ idcodeOk)
    /\ lkCall' = Call("isConnected", idcodeOk)
    /\ lkSteps' = <<>>
    /\ UNCHANGED <<lkInitialized, pin_reset>>
    /\ UNCHANGED notLk

\* swd_disconnect, which is swd_disconnect_enhanced: ESP_ERR_INVALID_STATE
\* unless initialized; a connected link is released and marked not connected
LkDisconnect(dhcsr) ==
    /\ dhcsr \in DhcsrReads
    /\ IF lkInitialized /\ lkConnected
       THEN /\ lkSteps' = release_target_steps(pin_reset, dhcsr)
            /\ lkConnected' = FALSE
       ELSE /\ lkSteps' = <<>>
            /\ UNCHANGED lkConnected
    /\ lkCall' = Call("disconnect", dhcsr)
    /\ UNCHANGED <<lkInitialized, pin_reset>>
    /\ UNCHANGED notLk

\* swd_release_target: ESP_ERR_INVALID_STATE unless initialized; connected
\* is left as it is
LkReleaseTarget(dhcsr) ==
    /\ dhcsr \in DhcsrReads
    /\ lkSteps' = IF lkInitialized THEN release_target_steps(pin_reset, dhcsr) ELSE <<>>
    /\ lkCall' = Call("releaseTarget", dhcsr)
    /\ UNCHANGED <<lkInitialized, lkConnected, pin_reset>>
    /\ UNCHANGED notLk

\* swd_reset_target: ESP_ERR_NOT_SUPPORTED without a reset pin; else the pin
\* is pulsed and swd_connect is called
LkResetTarget(ret) ==
    /\ ret \in LkConnectRets
    /\ IF pin_reset < 0
       THEN /\ lkSteps' = <<>>
            /\ UNCHANGED lkConnected
       ELSE /\ lkSteps' = <<"reset_pin_pulse">>
            /\ LkSwdConnect(ret)
    /\ lkCall' = Call("resetTarget", ret)
    /\ UNCHANGED <<lkInitialized, pin_reset>>
    /\ UNCHANGED notLk

\* swd_shutdown: nothing unless initialized; swd_dp_disconnect when
\* connected; connected = false, the pins released, initialized = false
LkShutdown ==
    /\ IF lkInitialized
       THEN /\ lkSteps' = IF lkConnected THEN swd_dp_disconnect([wire |-> <<>>]).wire ELSE <<>>
            /\ lkConnected' = FALSE
            /\ lkInitialized' = FALSE
       ELSE /\ lkSteps' = <<>>
            /\ UNCHANGED <<lkInitialized, lkConnected>>
    /\ lkCall' = Call("shutdown", 0)
    /\ UNCHANGED pin_reset
    /\ UNCHANGED notLk

\* uint32_t abort_val = 0x1E
abort_val == 30

\* swd_clear_errors: swd_dp_write(DP_ABORT, abort_val), which writes nothing
\* unless initialized
LkClearErrors ==
    /\ lkSteps' = IF lkInitialized THEN <<"write_dp_abort">> ELSE <<>>
    /\ lkCall' = Call("clearErrors", abort_val)
    /\ UNCHANGED <<lkInitialized, lkConnected, pin_reset>>
    /\ UNCHANGED notLk

\* The statics of swd_core.c: config = {0}, initialized = false,
\* connected = false
LkInit ==
    /\ lkInitialized = FALSE
    /\ lkConnected = FALSE
    /\ pin_reset = 0
    /\ lkCall = [op |-> "none", in |-> 0, wasInit |-> FALSE, wasConn |-> FALSE, pin |-> 0]
    /\ lkSteps = <<>>

LkNext ==
    \/ \E pin \in PinValues : LkSwdInit(pin)
    \/ LkReinit
    \/ \E ret \in LkConnectRets : LkConnect(ret)
    \/ \E idcodeOk \in BOOLEAN : LkIsConnected(idcodeOk)
    \/ \E dhcsr \in DhcsrReads : LkDisconnect(dhcsr)
    \/ \E dhcsr \in DhcsrReads : LkReleaseTarget(dhcsr)
    \/ \E ret \in LkConnectRets : LkResetTarget(ret)
    \/ LkShutdown
    \/ LkClearErrors

-----------------------------------------------------------------------------
(* Claims about the link interface machine *)

\* The last call was disconnect on a connected link
DisconnectedConnectedLink ==
    lkCall.op = "disconnect" /\ lkCall.wasInit /\ lkCall.wasConn

\* The debug-port disconnect sequence: power-down request, poll of the
\* acknowledgements, at least 50 clocks with SWDIO high, 0xE3BC
DpDisconnectSequence ==
    <<"power_down_request", "power_down_ack_poll", "clocks_high_60", "to_dormant_16">>

\* C34: disconnect on a connected link does, in this order: the resume of a
\* core found halted, the clearing of debug-enable, the clearing of DEMCR,
\* the reset (the pin pulsed if one is configured, else the software reset
\* request), the debug-port disconnect sequence; after it the link is marked
\* not connected.
C34_DisconnectOrder ==
    DisconnectedConnectedLink =>
        /\ ~lkConnected
        /\ lkSteps = <<"read_dhcsr">>
              \o (IF lkCall.in = "halted" THEN <<"write_dhcsr_dbgkey_debugen">> ELSE <<>>)
              \o <<"write_dhcsr_dbgkey", "write_demcr_0">>
              \o <<IF lkCall.pin >= 0 THEN "reset_pin_pulse" ELSE "write_aircr_sysresetreq">>
              \o DpDisconnectSequence

\* A connected link with a halted core and no reset pin was disconnected
C34_Witness ==
    /\ DisconnectedConnectedLink
    /\ lkCall.in = "halted"
    /\ lkCall.pin < 0
    /\ Len(lkSteps) = 9

\* The bits of the abort register of the debug port (ADIv5): bit 0 aborts
\* the pending access-port transaction, bits 1 to 4 clear the sticky
\* compare, sticky error, write data error and overrun flags
AbortBits ==
    [DAPABORT |-> 1, STKCMPCLR |-> 2, STKERRCLR |-> 4, WDERRCLR |-> 8, ORUNERRCLR |-> 16]

\* C40: the value clearErrors writes to the abort register has the five bits
\* set: overrun-error clear, write-data-error clear, sticky-error clear,
\* sticky-compare clear, and the bit that aborts a pending access-port
\* transaction.
C40_AbortValueHasFiveBits ==
    (lkCall.op = "clearErrors" /\ lkSteps = <<"write_dp_abort">>) =>
        \A name \in DOMAIN AbortBits : HasBit(lkCall.in, AbortBits[name])

\* C39: in every state reached by init, reinit, connect, isConnected,
\* disconnect, releaseTarget, resetTarget and shutdown in any order, the
\* link is marked connected only if it is marked initialized.
C39_ConnectedOnlyIfInitialized == lkConnected => lkInitialized

\* The link was shut down while connected, and connect was called after it
C39_Witness ==
    /\ lkCall.op \in {"connect", "resetTarget"}
    /\ lkCall.in = ESP_OK
    /\ ~lkCall.wasInit
    /\ ~lkInitialized

-----------------------------------------------------------------------------
(* Buffered-write comparison: swd_flash_write_buffer (swd_flash.c) and     *)
(* swd_mem_write_buffer (swd_mem.c) applied to the same address, data and  *)
(* memory, every access succeeding.                                        *)

\* The memory a write lands in: flash with write enabled, where programming
\* clears bits only, or memory that stores what is written
MemoryKinds == {"flash", "ram"}

\* Memories before the write: the pattern of InitialMemory, or erased
MemoriesBefore == {InitialMemory, [k \in MemWords |-> ERASED_WORD]}

\* swd_mem_write32(4 * k, word) as the memory takes it
TargetStore(kind, mem, k, word) ==
    [mem EXCEPT ![k] =
        IF kind = "flash"
        THEN BytesWord([j \in 1..4 |-> ByteAnd(WordBytes(mem[k])[j], WordBytes(word)[j])])
        ELSE word]

\* while (size >= 4): n whole words of bytes, from word k on (one by one in
\* swd_mem_write_buffer, by swd_mem_write_block32 in swd_flash_write_buffer)
RECURSIVE WholeWords(_, _, _, _, _)
WholeWords(kind, mem, k, bytes, n) ==
    IF n = 0 THEN mem
    ELSE WholeWords(kind, TargetStore(kind, mem, k, BytesWord(SubSeq(bytes, 1, 4))),
                    k + 1, SubSeq(bytes, 5, Len(bytes)), n - 1)

\* The unaligned start of both functions: the word is read, its bytes from
\* offset on are replaced, and it is written back
LeadingWord(kind, mem, addr, buffer) ==
    LET offset == addr % 4
        k == addr \div 4
    IN IF offset = 0 THEN mem
       ELSE TargetStore(kind, mem, k,
                BytesWord(Splice(WordBytes(mem[k]), offset,
                                 SubSeq(buffer, 1, BytesToCopy(offset, Len(buffer))))))

\* Mutant of FlashTailWord: the word starts as 0
FlashTailWord_ZeroPad(mem, k, bytes) ==
    BytesWord(Splice(<<0, 0, 0, 0>>, 0, bytes))

\* swd_flash_write_buffer, remaining bytes: word = 0xFFFFFFFF;
\* memcpy(&word, data, size). The word of the target is not read.
FlashTailWord(mem, k, bytes) ==
    BytesWord(Splice(<<255, 255, 255, 255>>, 0, bytes))

\* swd_mem_write_buffer, remaining bytes: the word is read and its first
\* size bytes are replaced
MemTailWord(mem, k, bytes) ==
    BytesWord(Splice(WordBytes(mem[k]), 0, bytes))

\* Both functions: the unaligned start, the whole words, the remaining bytes;
\* the word written for the remaining bytes tells them apart
BufferedWrite(kind, mem, addr, buffer, engine) ==
    LET n == IF addr % 4 = 0 THEN 0 ELSE BytesToCopy(addr % 4, Len(buffer))
        m1 == LeadingWord(kind, mem, addr, buffer)
        rest == SubSeq(buffer, n + 1, Len(buffer))
        k == (addr + n) \div 4
        words == Len(rest) \div 4
        m2 == WholeWords(kind, m1, k, rest, words)
        tail == SubSeq(rest, 4 * words + 1, Len(rest))
    IN IF Len(tail) = 0 THEN m2
       ELSE TargetStore(kind, m2, k + words,
                        IF engine = "flash" THEN FlashTailWord(m2, k + words, tail)
                        ELSE MemTailWord(m2, k + words, tail))

\* swd_flash_write_buffer(addr, data, size, progress) as the memory sees it
swd_flash_write_buffer(kind, mem, addr, data) ==
    BufferedWrite(kind, mem, addr, data, "flash")

\* swd_mem_write_buffer(addr, buffer, size) as the memory sees it
swd_mem_write_buffer(kind, mem, addr, buffer) ==
    BufferedWrite(kind, mem, addr, buffer, "mem")

\* The address, the data and the memory of the comparison
BwCall(kind, mem, addr, data) ==
    /\ bwPc = "idle"
    /\ kind \in MemoryKinds /\ mem \in MemoriesBefore /\ addr \in BufferAddrs
    /\ Len(data) > 0
    /\ bwPc' = "called"
    /\ bwKind' = kind
    /\ bwAddr' = addr
    /\ bwData' = data
    /\ bwBefore' = mem
    /\ bwFlash' = mem
    /\ bwMem' = mem
    /\ bwRan' = {}
    /\ UNCHANGED notBw

BwRun(who) ==
    /\ bwPc = "called"
    /\ who \notin bwRan
    /\ bwRan' = bwRan \cup {who}
    /\ bwPc' = IF bwRan' = {"flash", "mem"} THEN "done" ELSE "called"
    /\ UNCHANGED <<bwKind, bwAddr, bwData, bwBefore>>
    /\ UNCHANGED notBw

\* The flash engine writes the data to its copy of the memory
BwFlashWrite ==
    /\ BwRun("flash")
    /\ bwFlash' = swd_flash_write_buffer(bwKind, bwBefore, bwAddr, bwData)
    /\ UNCHANGED bwMem

\* The memory access layer writes the data to its copy of the memory
BwMemWrite ==
    /\ BwRun("mem")
    /\ bwMem' = swd_mem_write_buffer(bwKind, bwBefore, bwAddr, bwData)
    /\ UNCHANGED bwFlash

BwInit ==
    /\ bwPc = "idle"
    /\ bwKind = "flash"
    /\ bwAddr = 0
    /\ bwData = <<>>
    /\ bwBefore = InitialMemory
    /\ bwFlash = InitialMemory
    /\ bwMem = InitialMemory
    /\ bwRan = {}

BwNext ==
    \/ \E kind \in MemoryKinds, mem \in MemoriesBefore, addr \in BufferAddrs,
          size \in 1..MaxBytes : \E data \in Buffers(size) : BwCall(kind, mem, addr, data)
    \/ BwFlashWrite
    \/ BwMemWrite

-----------------------------------------------------------------------------
(* Claims about the buffered-write comparison *)

\* The addresses written, and the other addresses of the words they touch
WrittenRange == bwAddr..(bwAddr + Len(bwData) - 1)

OutsideWritten ==
    {a \in (4 * (bwAddr \div 4))..(4 * ((bwAddr + Len(bwData) - 1) \div 4) + 3) :
        a \notin WrittenRange}

\* Both writes leave the same words, and around the written range the bytes
\* of the partial words are the ones of the memory before the write
SameContentAsMemoryLayer ==
    /\ bwFlash = bwMem
    /\ \A a \in OutsideWritten : ByteAt(bwFlash, a) = ByteAt(bwBefore, a)

\* C35 as stated: for the same address, data and memory before, the flash
\* engine's buffered write leaves every touched word as the memory access
\* layer's writeBuffer would, the bytes outside the written range keeping
\* their value, whatever the memory.
C35_Original == bwPc = "done" => SameContentAsMemoryLayer

\* C35: on flash being programmed, where a write clears bits only, the flash
\* engine's buffered write leaves every touched word as the memory access
\* layer's writeBuffer would on the same flash, and in the leading and the
\* trailing partial word the bytes outside the written range keep their
\* value.
C35_SameContentOnFlash ==
    (bwPc = "done" /\ bwKind = "flash") => SameContentAsMemoryLayer

\* A write on flash that is not erased, with a leading partial word and a
\* trailing partial word in another word
C35_Witness ==
    /\ bwPc = "done"
    /\ bwKind = "flash"
    /\ bwBefore = InitialMemory
    /\ bwAddr % 4 # 0
    /\ (bwAddr + Len(bwData)) % 4 # 0
    /\ (bwAddr + Len(bwData) - 1) \div 4 > bwAddr \div 4
    /\ bwFlash # bwBefore

-----------------------------------------------------------------------------
(* Window machine: the HEX_TYPE_DATA branch of hex_flash_callback          *)
(* (web_upload.c) with abs_addr, buffer_start_addr and offset_in_buffer as *)
(* uint32_t, a word being <<high half, low half>>.                         *)

(* Bounds of the window machine *)
MaxWindowRecords == 3    \* data records per behaviour

\* abs_addr of the records: record.address + extended_addr + segment_addr
\* (hex_parser.c), any 32-bit value. 0x0, 0xFA0, 0x1000, 0x2000, 0xFFFFFF00,
\* 0xFFFFFFF0
WindowAddrs == {<<0, 0>>, <<0, 4000>>, <<0, 4096>>, <<0, 8192>>,
                <<65535, 65280>>, <<65535, 65520>>}

\* record->byte_count: 0 to 255
WindowCounts == {0, 16, 255}

\* x + n on uint32_t, n below 2^16
Add32(x, n) ==
    <<(x[1] + ((x[2] + n) \div 65536)) % 65536, (x[2] + n) % 65536>>

\* x - y on uint32_t
Sub32(x, y) ==
    IF x[2] >= y[2]
    THEN <<(x[1] - y[1] + 65536) % 65536, x[2] - y[2]>>
    ELSE <<(x[1] - y[1] - 1 + 131072) % 65536, x[2] - y[2] + 65536>>

\* x < y on uint32_t
Lt32(x, y) == x[1] < y[1] \/ (x[1] = y[1] /\ x[2] < y[2])

\* x > n on uint32_t, n below 2^16
Gt32(x, n) == x[1] > 0 \/ x[2] > n

\* else if (abs_addr < buffer_start_addr ||
\*          offset_in_buffer + record->byte_count > PAGE_BUFFER_SIZE)
WindowNeedsFlush(start, abs_addr, count) ==
    \/ Lt32(abs_addr, start)
    \/ Gt32(Add32(Sub32(abs_addr, start), count), PAGE_BUFFER_SIZE)

\* hex_flash_callback, HEX_TYPE_DATA. flush_buffer leaves buffer_data_len at
\* 0 when it succeeds and as it was when it fails; its result is not looked
\* at.
WnDataRecord(abs_addr, count, flush_ok) ==
    /\ wnRecords < MaxWindowRecords
    /\ abs_addr \in WindowAddrs /\ count \in WindowCounts /\ flush_ok \in BOOLEAN
    /\ LET first == wnLen = 0
           flush == ~first /\ WindowNeedsFlush(wnStart, abs_addr, count)
           len1 == IF flush /\ flush_ok THEN 0 ELSE wnLen
           offset_in_buffer == IF first \/ flush THEN <<0, 0>> ELSE Sub32(abs_addr, wnStart)
           new_end == Add32(offset_in_buffer, count)
       IN /\ wnStart' = IF first \/ flush THEN abs_addr ELSE wnStart
          /\ wnCopy' = [off |-> offset_in_buffer, count |-> count]
          /\ wnLen' = IF Gt32(new_end, len1) THEN new_end[2] ELSE len1
          /\ wnFlushed' = flush
    /\ wnRecords' = wnRecords + 1
    /\ UNCHANGED notWn

\* A new upload: the context after calloc
WnNewUpload ==
    /\ wnRecords = MaxWindowRecords
    /\ wnStart' = <<0, 0>>
    /\ wnLen' = 0
    /\ wnCopy' = [off |-> <<0, 0>>, count |-> 0]
    /\ wnFlushed' = FALSE
    /\ wnRecords' = 0
    /\ UNCHANGED notWn

WnInit ==
    /\ wnStart = <<0, 0>>
    /\ wnLen = 0
    /\ wnCopy = [off |-> <<0, 0>>, count |-> 0]
    /\ wnFlushed = FALSE
    /\ wnRecords = 0

WnNext ==
    \/ \E abs_addr \in WindowAddrs, count \in WindowCounts, flush_ok \in BOOLEAN :
          WnDataRecord(abs_addr, count, flush_ok)
    \/ WnNewUpload

-----------------------------------------------------------------------------
(* Claims about the window machine *)

\* The last copy lies inside page_buffer: bytes off to off + count - 1 with
\* off + count at most PAGE_BUFFER_SIZE, as numbers
CopyInsideBuffer ==
    /\ wnCopy.off[1] = 0
    /\ wnCopy.off[2] + wnCopy.count <= PAGE_BUFFER_SIZE

\* C36: after any sequence of data records and flush outcomes the buffered
\* length is at most 4096 and every copy of record data lies inside the
\* buffer.
C36_CopiesInsideBuffer ==
    /\ wnLen <= PAGE_BUFFER_SIZE
    /\ CopyInsideBuffer

-----------------------------------------------------------------------------
(* TFTP machine: handle_write_request (tftp_server.c), one write transfer   *)
(* after another.                                                          *)

TFTP_BLOCK_SIZE == 512
TFTP_MAX_RETRIES == 5

(* Bounds of the TFTP machine *)
MaxFileSize == 1100      \* tftp_server.config.max_file_size
MaxBlockNum == 4         \* highest block number a client sends

\* len - 4 of the DATA packets: none, a short block, a full block
DataLens == {0, 100, TFTP_BLOCK_SIZE}

NoPacket == [kind |-> "none", block |-> 0, len |-> 0]

NothingSent == <<>>

\* send_ack(sock, client_addr, block)
Ack(block) == [kind |-> "ack", block |-> block]

\* send_error(sock, addr, code, msg)
Error(code) == [kind |-> "error", block |-> code]

\* Mutant of BlockOrder: a block below the expected one is taken as the
\* expected one
BlockOrder_NoDuplicates(block_num, expected) ==
    IF block_num > expected THEN "ahead" ELSE "expected"

\* if (block_num < expected_block) ... if (block_num > expected_block) ...
BlockOrder(block_num, expected) ==
    IF block_num < expected THEN "duplicate"
    ELSE IF block_num > expected THEN "ahead"
    ELSE "expected"

\* while (!transfer_complete && consecutive_timeouts < TFTP_MAX_RETRIES)
InLoop ==
    /\ tfPc = "loop"
    /\ ~transfer_complete
    /\ consecutive_timeouts < TFTP_MAX_RETRIES

\* The write request up to the loop: unlink, fopen (which may fail),
\* send_ack(0), expected_block = 1
TfWriteRequest(openOk) ==
    /\ tfPc \in {"idle", "closed"}
    /\ tfFile' = <<>>
    /\ tfPacket' = NoPacket
    /\ expected_block' = 1
    /\ total_received' = 0
    /\ transfer_complete' = FALSE
    /\ consecutive_timeouts' = 0
    /\ IF openOk
       THEN tfPc' = "loop" /\ tfExists' = TRUE /\ tfSent' = <<Ack(0)>>
       ELSE tfPc' = "closed" /\ tfExists' = FALSE /\ tfSent' = <<Error("access_violation")>>
    /\ UNCHANGED notTf

\* recvfrom times out: the last acknowledgement is sent again
TfTimeout ==
    /\ InLoop
    /\ tfSent' = <<Ack(expected_block - 1)>>
    /\ consecutive_timeouts' = consecutive_timeouts + 1
    /\ tfPacket' = [kind |-> "timeout", block |-> 0, len |-> 0]
    /\ UNCHANGED <<tfPc, expected_block, total_received, transfer_complete, tfFile, tfExists>>
    /\ UNCHANGED notTf

\* recvfrom fails with another error: break
TfReceiveError ==
    /\ InLoop
    /\ tfPc' = "broke"
    /\ tfSent' = NothingSent
    /\ tfPacket' = [kind |-> "recv_error", block |-> 0, len |-> 0]
    /\ UNCHANGED <<expected_block, total_received, transfer_complete, consecutive_timeouts,
                   tfFile, tfExists>>
    /\ UNCHANGED notTf

\* A packet of another sender, or one that is not DATA: continue
TfIgnored(kind) ==
    /\ InLoop
    /\ kind \in {"other_sender", "not_data"}
    /\ consecutive_timeouts' = 0
    /\ tfSent' = IF kind = "other_sender" THEN <<Error("unknown_tid")>> ELSE NothingSent
    /\ tfPacket' = [kind |-> kind, block |-> 0, len |-> 0]
    /\ UNCHANGED <<tfPc, expected_block, total_received, transfer_complete, tfFile, tfExists>>
    /\ UNCHANGED notTf

\* A DATA packet of the client: block_num against expected_block, fwrite
\* (which writes all of the block or fails), the acknowledgement, the last
\* block, the size limit. expected_block is a uint16_t; the size limit ends
\* the transfer long before it could wrap.
TfData(block_num, data_len, writeOk) ==
    /\ InLoop
    /\ block_num \in 0..MaxBlockNum /\ data_len \in DataLens /\ writeOk \in BOOLEAN
    /\ consecutive_timeouts' = 0
    /\ tfPacket' = [kind |-> "data", block |-> block_num, len |-> data_len]
    /\ CASE BlockOrder(block_num, expected_block) = "duplicate" ->
              /\ tfSent' = <<Ack(block_num)>>
              /\ UNCHANGED <<tfPc, expected_block, total_received, transfer_complete, tfFile>>
         [] BlockOrder(block_num, expected_block) = "ahead" ->
              /\ tfSent' = <<Error("not_defined")>>
              /\ tfPc' = "broke"
              /\ UNCHANGED <<expected_block, total_received, transfer_complete, tfFile>>
         [] OTHER ->
              IF data_len > 0 /\ ~writeOk
              THEN /\ tfSent' = <<Error("disk_full")>>
                   /\ tfPc' = "broke"
                   /\ UNCHANGED <<expected_block, total_received, transfer_complete, tfFile>>
              ELSE /\ tfFile' = IF data_len > 0
                                THEN Append(tfFile, [block |-> block_num, len |-> data_len])
                                ELSE tfFile
                   /\ total_received' = total_received + data_len
                   /\ transfer_complete' = (data_len < TFTP_BLOCK_SIZE)
                   /\ expected_block' = expected_block + 1
                   /\ IF total_received' > MaxFileSize
                      THEN tfSent' = <<Ack(block_num), Error("disk_full")>> /\ tfPc' = "broke"
                      ELSE tfSent' = <<Ack(block_num)>> /\ UNCHANGED tfPc
    /\ UNCHANGED tfExists
    /\ UNCHANGED notTf

\* After the loop: fclose; the file is kept when transfer_complete, else
\* unlink(filepath)
TfClose ==
    /\ tfPc \in {"loop", "broke"}
    /\ tfPc = "loop" => ~InLoop
    /\ tfPc' = "closed"
    /\ tfExists' = transfer_complete
    /\ UNCHANGED <<expected_block, total_received, transfer_complete, consecutive_timeouts,
                   tfFile, tfPacket, tfSent>>
    /\ UNCHANGED notTf

TfInit ==
    /\ tfPc = "idle"
    /\ expected_block = 1
    /\ total_received = 0
    /\ transfer_complete = FALSE
    /\ consecutive_timeouts = 0
    /\ tfFile = <<>>
    /\ tfExists = FALSE
    /\ tfPacket = NoPacket
    /\ tfSent = NothingSent

TfNext ==
    \/ \E openOk \in BOOLEAN : TfWriteRequest(openOk)
    \/ TfTimeout
    \/ TfReceiveError
    \/ \E kind \in {"other_sender", "not_data"} : TfIgnored(kind)
    \/ \E block_num \in 0..MaxBlockNum, data_len \in DataLens, writeOk \in BOOLEAN :
          TfData(block_num, data_len, writeOk)
    \/ TfClose

-----------------------------------------------------------------------------
(* Claims about the TFTP machine *)

\* The blocks of a file are in strictly increasing order of their numbers
StrictlyIncreasing(file) ==
    \A i, j \in 1..Len(file) : i < j => file[i].block < file[j].block

\* This step handles a DATA packet of the client in a transfer
DataStep == InLoop /\ tfPacket'.kind = "data"

\* A block with data that is written
BlockWritten ==
    /\ Len(tfFile') = Len(tfFile) + 1
    /\ SubSeq(tfFile', 1, Len(tfFile)) = tfFile
    /\ tfFile'[Len(tfFile')].block = tfPacket'.block

\* C37: the blocks are appended to the file in strictly increasing order of
\* their numbers, each at most once; a block equal to the expected number is
\* written and acknowledged; a block below it is acknowledged again and not
\* written; a block above it aborts the transfer; after an aborted transfer
\* no partial file remains.
C37_BlocksInOrder ==
    [][/\ StrictlyIncreasing(tfFile')
       /\ DataStep =>
            /\ tfPacket'.block < expected_block =>
                  tfFile' = tfFile /\ tfSent' = <<Ack(tfPacket'.block)>> /\ tfPc' = "loop"
            /\ tfPacket'.block > expected_block =>
                  tfFile' = tfFile /\ tfPc' = "broke" /\ tfSent' = <<Error("not_defined")>>
            /\ (tfPacket'.block = expected_block /\ tfPc' = "loop") =>
                  /\ tfPacket'.len > 0 => BlockWritten
                  /\ tfSent' = <<Ack(tfPacket'.block)>>
            /\ tfFile' # tfFile => (tfPacket'.block = expected_block /\ BlockWritten)
       /\ (tfPc' = "closed" /\ ~transfer_complete') => ~tfExists'
      ]_vars

\* Two blocks are in the file and the first was sent again and acknowledged
C37_Witness ==
    /\ tfPc = "loop"
    /\ Len(tfFile) = 2
    /\ tfPacket = [kind |-> "data", block |-> 1, len |-> TFTP_BLOCK_SIZE]
    /\ tfSent = <<Ack(1)>>
    /\ expected_block = 3

-----------------------------------------------------------------------------
(* Chunk machine: hex_stream_parse and parse_hex_line (hex_parser.c) on the *)
(* characters of a stream, fed to one parser in chunks, as the read loop   *)
(* of flash_stored_handler does, and to another in one call.               *)

\* sizeof(parser->line_buffer)
LINE_BUFFER_SIZE == 600

UpperDigits == <<"0", "1", "2", "3", "4", "5", "6", "7", "8", "9", "A", "B", "C", "D", "E", "F">>

LowerDigits == <<"0", "1", "2", "3", "4", "5", "6", "7", "8", "9", "a", "b", "c", "d", "e", "f">>

\* Streams: (A) a data record, an extended linear address, a data record in
\* lower case after "\r\n", the end of file; (B) a record with a wrong
\* checksum, an extended segment address, no line end after the last
\* record; (C) empty lines, a line without ':', a line that is too short
StreamA ==
    <<":", "0", "1", "0", "0", "1", "0", "0", "0", "A", "B", "4", "4", "\n", ":", "0", "2",
      "0", "0", "0", "0", "0", "4", "0", "0", "0", "1", "F", "9", "\r", "\n", ":", "0", "2",
      "0", "0", "2", "0", "0", "0", "c", "d", "e", "f", "2", "2", "\n", ":", "0", "0", "0",
      "0", "0", "0", "0", "1", "F", "F", "\n">>

StreamB ==
    <<":", "0", "1", "0", "0", "1", "0", "0", "0", "A", "B", "4", "4", "\r", ":", "0", "1",
      "0", "0", "1", "0", "0", "0", "A", "B", "4", "5", "\n", ":", "0", "2", "0", "0", "0",
      "0", "0", "2", "1", "0", "0", "0", "E", "C", "\n", ":", "0", "1", "0", "0", "1", "0",
      "0", "0", "A", "B", "4", "4", "\n", ":", "0", "0", "0", "0", "0", "0", "0", "1", "F",
      "F">>

StreamC ==
    <<"\n", "\n", ":", "0", "2", "0", "0", "2", "0", "0", "0", "c", "d", "e", "f", "2", "2",
      "\n", "X", "1", "\n", ":", "0", "1", "0", "0", "\n", ":", "0", "0", "0", "0", "0", "0",
      "0", "1", "F", "F", "\n">>

Streams == {StreamA, StreamB, StreamC}

\* hex_char_to_byte
hex_char_to_byte(c) ==
    IF \E i \in 1..16 : UpperDigits[i] = c
    THEN (CHOOSE i \in 1..16 : UpperDigits[i] = c) - 1
    ELSE IF \E i \in 1..16 : LowerDigits[i] = c
    THEN (CHOOSE i \in 1..16 : LowerDigits[i] = c) - 1
    ELSE 0

\* hex_to_byte(line + at)
hex_to_byte(line, at) ==
    hex_char_to_byte(line[at + 1]) * 16 + hex_char_to_byte(line[at + 2])

\* for (i = 0; i < byte_count; i++) data[i] = hex_to_byte(line + 9 + i * 2)
RECURSIVE DataBytes(_, _)
DataBytes(line, n) ==
    IF n = 0 THEN <<>>
    ELSE Append(DataBytes(line, n - 1), hex_to_byte(line, 9 + (n - 1) * 2))

\* parse_hex_line on the characters of a line (strlen(line) is their number)
ParseLineChars(line) ==
    LET failed(ret) == [ret |-> ret, type |-> 0, byte_count |-> 0, address |-> 0, data |-> <<>>]
    IN IF line[1] # ":" THEN failed(ESP_ERR_INVALID_ARG)
       ELSE IF Len(line) < 11 THEN failed(ESP_ERR_INVALID_SIZE)
       ELSE LET byte_count == hex_to_byte(line, 1)
                address == hex_to_byte(line, 3) * 256 + hex_to_byte(line, 5)
                type == hex_to_byte(line, 7)
            IN IF Len(line) < 11 + byte_count * 2 THEN failed(ESP_ERR_INVALID_SIZE)
               ELSE LET data == DataBytes(line, byte_count)
                        checksum == hex_to_byte(line, 9 + byte_count * 2)
                    IN IF LineChecksum(byte_count, address, type, data) # checksum
                       THEN failed(ESP_ERR_INVALID_CRC)
                       ELSE [ret |-> ESP_OK, type |-> type, byte_count |-> byte_count,
                             address |-> address, data |-> data]

\* hex_stream_create: the parser after calloc; calls is the history of the
\* callback: record type, data bytes, abs_addr
NewParser ==
    [extended_addr |-> 0, segment_addr |-> 0, line_buffer |-> <<>>, line_count |-> 0,
     data_bytes |-> 0, calls |-> <<>>]

\* hex_stream_parse, a line end with line_pos > 0: the line is parsed and
\* its record handled; line_pos = 0
EndOfLine(p) ==
    LET record == ParseLineChars(p.line_buffer)
        q == [p EXCEPT !.line_buffer = <<>>]
        call(abs_addr) == [type |-> record.type, data |-> record.data, abs_addr |-> abs_addr]
    IN IF record.ret # ESP_OK THEN q
       ELSE LET r == [q EXCEPT !.line_count = @ + 1]
            IN CASE record.type = HEX_TYPE_DATA ->
                      [r EXCEPT !.data_bytes = @ + record.byte_count,
                                !.calls = Append(@, call(record.address + p.extended_addr
                                                         + p.segment_addr))]
                 [] record.type = HEX_TYPE_EOF ->
                      [r EXCEPT !.calls = Append(@, call(0))]
                 [] record.type = HEX_TYPE_EXT_LIN_ADDR ->
                      [r EXCEPT !.extended_addr = ExtendedLinear(record.data)]
                 [] record.type = HEX_TYPE_EXT_SEG_ADDR ->
                      [r EXCEPT !.segment_addr = ExtendedSegment(record.data)]
                 [] OTHER -> r

\* hex_stream_parse, the body of the loop for the character c
ParseChar(p, c) ==
    IF c = "\n" \/ c = "\r"
    THEN IF Len(p.line_buffer) > 0 THEN EndOfLine(p) ELSE p
    ELSE IF Len(p.line_buffer) < LINE_BUFFER_SIZE - 1
    THEN [p EXCEPT !.line_buffer = Append(@, c)]
    ELSE [p EXCEPT !.line_buffer = <<>>]

\* for (i = 0; i < len; i++): the characters of data one after another;
\* line_pos stays below sizeof(line_buffer) all along
RECURSIVE ParseChars(_, _)
ParseChars(p, data) ==
    IF Len(data) = 0 \/ Len(p.line_buffer) >= LINE_BUFFER_SIZE THEN p
    ELSE ParseChars(ParseChar(p, Head(data)), Tail(data))

\* Mutant of hex_stream_parse: each call starts with an empty line buffer
hex_stream_parse_FreshLine(p, data) ==
    ParseChars([p EXCEPT !.line_buffer = <<>>], data)

\* hex_stream_parse(parser, data, len): the parser after the call
hex_stream_parse(p, data) == ParseChars(p, data)

\* A file is opened: two parsers are created
CkOpen(stream) ==
    /\ ckPc \in {"idle", "done"}
    /\ stream \in Streams
    /\ ckPc' = "reading"
    /\ ckStream' = stream
    /\ ckPos' = 0
    /\ ckParser' = NewParser
    /\ ckWhole' = NewParser
    /\ ckChunks' = 0
    /\ ckSplitLine' = FALSE
    /\ UNCHANGED notCk

\* fread gives the next n bytes and hex_stream_parse is called on them
CkParseChunk(n) ==
    /\ ckPc = "reading"
    /\ n \in 1..(Len(ckStream) - ckPos)
    /\ ckParser' = hex_stream_parse(ckParser, SubSeq(ckStream, ckPos + 1, ckPos + n))
    /\ ckPos' = ckPos + n
    /\ ckChunks' = IF ckChunks < 2 THEN ckChunks + 1 ELSE ckChunks
    /\ ckSplitLine' = (ckSplitLine \/ (ckPos' < Len(ckStream) /\ Len(ckParser'.line_buffer) > 0))
    /\ UNCHANGED <<ckPc, ckStream, ckWhole>>
    /\ UNCHANGED notCk

\* The chunks have covered the file; the other parser is given the stream in
\* one call
CkParseWhole ==
    /\ ckPc = "reading"
    /\ ckPos = Len(ckStream)
    /\ ckWhole' = hex_stream_parse(NewParser, ckStream)
    /\ ckPc' = "done"
    /\ UNCHANGED <<ckStream, ckPos, ckParser, ckChunks, ckSplitLine>>
    /\ UNCHANGED notCk

CkInit ==
    /\ ckPc = "idle"
    /\ ckStream = <<>>
    /\ ckPos = 0
    /\ ckParser = NewParser
    /\ ckWhole = NewParser
    /\ ckChunks = 0
    /\ ckSplitLine = FALSE

CkNext ==
    \/ \E stream \in Streams : CkOpen(stream)
    \/ \E n \in 1..64 : CkParseChunk(n)
    \/ CkParseWhole

-----------------------------------------------------------------------------
(* Claims about the chunk machine *)

\* C38: a stream fed to the parser in consecutive chunks, split anywhere,
\* gives exactly the callback invocations (record type, data bytes, absolute
\* address), in order, that the stream fed in one call gives.
C38_ChunksGiveSameCalls ==
    ckPc = "done" => ckParser.calls = ckWhole.calls

\* The stream with the address record was fed in chunks that split a line,
\* and the callback was called for its two data records and its end of file
C38_Witness ==
    /\ ckPc = "done"
    /\ ckStream = StreamA
    /\ ckSplitLine
    /\ ckChunks >= 2
    /\ Len(ckWhole.calls) = 3
    /\ ckWhole.calls[2].abs_addr = 65536 + 32

-----------------------------------------------------------------------------
(* Specifications *)

\* The state after boot: every layer in its constructed state.
Init == UploadInit /\ RegInit /\ MeInit /\ BlkInit /\ NvInit /\ XfInit /\ CnInit /\ SvInit /\ MbInit /\ CrInit /\ EtInit /\ PsInit /\ MqInit /\ WrInit /\ RbInit /\ LkInit /\ BwInit /\ WnInit /\ TfInit /\ CkInit

SpecUpload == Init /\ [][UploadNext]_vars

SpecReg == Init /\ [][RegNext]_vars

SpecMassErase == Init /\ [][MeNext]_vars

SpecBlock == Init /\ [][BlkNext]_vars

SpecNvmc == Init /\ [][NvNext]_vars

SpecTransfer == Init /\ [][XfNext]_vars

SpecConnect == Init /\ [][CnNext]_vars

SpecServer == Init /\ [][SvNext]_vars

SpecBuffer == Init /\ [][MbNext]_vars

SpecCoreReg == Init /\ [][CrNext]_vars

SpecErase == Init /\ [][EtNext]_vars

SpecParser == Init /\ [][PsNext]_vars

SpecMassEraseRequest == Init /\ [][MqNext]_vars

SpecWire == Init /\ [][WrNext]_vars

SpecReboot == Init /\ [][RbNext]_vars

SpecLink == Init /\ [][LkNext]_vars

SpecBufferedWrite == Init /\ [][BwNext]_vars

SpecWindow == Init /\ [][WnNext]_vars

SpecTftp == Init /\ [][TfNext]_vars

SpecChunks == Init /\ [][CkNext]_vars

====
